---- MODULE Spec2Model ----
(***************************************************************************)
(* Oblivious message retrieval (omr_core): the matrix solvers, the         *)
(* retriever's digest decoding and the detector, modelled on plaintexts.   *)
(*                                                                         *)
(* Sequences are 1-based here and 0-based in the source: row i of the      *)
(* source is row i + 1 of the model.                                       *)
(***************************************************************************)
EXTENDS Integers, Sequences, FiniteSets, TLC

VARIABLES
    \* ---- matrix.rs: one call of a solver
    spc,            \* "idle" | "call" before the call | "returned" after it
    solver,         \* "mod256" | "mod257" | "generic": which function is called
    modulus_value,  \* the modulus p of the call
    matrix,         \* the caller's matrix slice (mutated in place)
    payloads,       \* the caller's payload slice (mutated in place)
    x_true,         \* the payload vector x the right-hand side was built from
    matrix_in,      \* the matrix as passed in
    payloads_in,    \* the payload slice as passed in
    result,         \* what the call returned
    solve_trace,    \* what the call did: the pivot of every step, the matrix after the forward pass
    \* ---- one session of detector-side encoding and retriever.rs decoding
    params,                 \* the RetrievalParams of the session
    pertinent,              \* the set I of pertinent message indices (0-based)
    board,                  \* the payloads on the board, message i at board[i + 1]
    seed,                   \* the session seed
    index_digest,           \* decrypted coefficients of the index-digest ciphertexts built so far
    index_assign,           \* per index-digest ciphertext: segment -> pertinent index -> bucket drawn
    payload_digest,         \* decrypted coefficients of the payload-digest ciphertexts, <<>> before
    encode_panicked,        \* the digit loop of the encoder ran out of its chunk
    pertinent_indices_set,  \* Retriever.pertinent_indices_set
    last_call,              \* "none" | "decode_pertinent_indices" | "decode_digest"
    indices_result,         \* what the last decode_pertinent_indices returned
    digest_result,          \* what the last decode_digest returned
    decode_log,             \* the direct calls of decode_pertinent_indices so far, in order
    \* ---- detector.rs: one call of Detector::detect, as the phases under the detector's keys
    dpc,            \* "idle" | "clues" | "extracted" | "first" | "second" | "done"
    same_key,       \* the clue comes from a sender of the detector's SecretKeyPack
    clues,          \* the phase of each clue slot
    intermediate,   \* the phase of the intermediate LWE ciphertext
    ciphertext,     \* the phase polynomial of the RLWE ciphertext of the second level
    \* ---- detector.rs: several threads in Detector::detect on one Detector
    detector,       \* the shared Detector: its two tables and the key's n_inv
    calls,          \* per thread: the clue borrowed, and the locals of its detect call
    \* ---- one call of a function that reads nothing but its arguments
    fn,             \* "none" | the name of the function called
    args,           \* its arguments
    ret             \* [status |-> "None"] before the call, what it returned after

solverVars ==
    <<spc, solver, modulus_value, matrix, payloads, x_true, matrix_in, payloads_in, result,
      solve_trace>>

sessionVars == <<params, pertinent, board, seed>>

encoderVars == <<index_digest, index_assign, payload_digest, encode_panicked>>

retrieverVars ==
    <<pertinent_indices_set, last_call, indices_result, digest_result, decode_log>>

detectVars == <<dpc, same_key, clues, intermediate, ciphertext>>

concurrentVars == <<detector, calls>>

functionVars == <<fn, args, ret>>

vars ==
    <<solverVars, sessionVars, encoderVars, retrieverVars, detectVars, concurrentVars,
      functionVars>>

-----------------------------------------------------------------------------
(* Bounds of the model *)

\* Largest number of columns (unknowns) of a square matrix handed to a solver.
MaxCols == 2

\* Length of a payload in the model (PAYLOAD_LENGTH is 612 in payload.rs).
PayloadLen == 1

\* Matrix entries are drawn from these residues: 0, an even one, an odd non-unit.
SampleVals == {0, 2, 3}

\* Payload j of a payload list holds base + 7 * j, base + 7 * j + 1, ... (mod p)
\* for a base drawn from here.
SampleBases == {1, 200}

\* Moduli handed to the generic solver: a prime and a composite one.
GenericModuli == {5, 6}

-----------------------------------------------------------------------------
(* Arithmetic helpers *)

\* F at the value of v, with v evaluated once.
WithValue(v, F(_)) == CHOOSE r \in {F(x) : x \in {v}} : TRUE

Min(S) == CHOOSE m \in S : \A n \in S : m <= n

RECURSIVE Gcd(_, _)
Gcd(a, b) == IF b = 0 THEN a ELSE Gcd(b, a % b)

IsPrime(p) == p > 1 /\ \A d \in 2..(p - 1) : p % d # 0

\* Xgcd::gcdinv(value, modulus): the inverse of value modulo modulus and the gcd.
gcdinv(value, m) ==
    LET g == Gcd(value, m)
    IN  [gcd |-> g,
         inv |-> IF g = 1
                 THEN CHOOSE v \in 0..(m - 1) : (value * v) % m = 1 % m
                 ELSE 0]

\* const INV_MOD_256: [u16; 256]
INV_MOD_256_TABLE ==
  <<
    0, 1, 0, 171, 0, 205, 0, 183, 0, 57, 0, 163, 0, 197, 0, 239, 0, 241, 0, 27,
    0, 61, 0, 167, 0, 41, 0, 19, 0, 53, 0, 223, 0, 225, 0, 139, 0, 173, 0, 151,
    0, 25, 0, 131, 0, 165, 0, 207, 0, 209, 0, 251, 0, 29, 0, 135, 0, 9, 0, 243,
    0, 21, 0, 191, 0, 193, 0, 107, 0, 141, 0, 119, 0, 249, 0, 99, 0, 133, 0, 175,
    0, 177, 0, 219, 0, 253, 0, 103, 0, 233, 0, 211, 0, 245, 0, 159, 0, 161, 0, 75,
    0, 109, 0, 87, 0, 217, 0, 67, 0, 101, 0, 143, 0, 145, 0, 187, 0, 221, 0, 71,
    0, 201, 0, 179, 0, 213, 0, 127, 0, 129, 0, 43, 0, 77, 0, 55, 0, 185, 0, 35,
    0, 69, 0, 111, 0, 113, 0, 155, 0, 189, 0, 39, 0, 169, 0, 147, 0, 181, 0, 95,
    0, 97, 0, 11, 0, 45, 0, 23, 0, 153, 0, 3, 0, 37, 0, 79, 0, 81, 0, 123,
    0, 157, 0, 7, 0, 137, 0, 115, 0, 149, 0, 63, 0, 65, 0, 235, 0, 13, 0, 247,
    0, 121, 0, 227, 0, 5, 0, 47, 0, 49, 0, 91, 0, 125, 0, 231, 0, 105, 0, 83,
    0, 117, 0, 31, 0, 33, 0, 203, 0, 237, 0, 215, 0, 89, 0, 195, 0, 229, 0, 15,
    0, 17, 0, 59, 0, 93, 0, 199, 0, 73, 0, 51, 0, 85, 0, 255
  >>

\* const INV_MOD_257: [u16; 257]
INV_MOD_257_TABLE ==
  <<
    0, 1, 129, 86, 193, 103, 43, 147, 225, 200, 180, 187, 150, 178, 202, 120, 241, 121, 100, 230,
    90, 49, 222, 190, 75, 72, 89, 238, 101, 195, 60, 199, 249, 148, 189, 235, 50, 132, 115, 145,
    45, 163, 153, 6, 111, 40, 95, 175, 166, 21, 36, 126, 173, 97, 119, 243, 179, 248, 226, 61,
    30, 59, 228, 102, 253, 87, 74, 234, 223, 149, 246, 181, 25, 169, 66, 24, 186, 247, 201, 244,
    151, 165, 210, 96, 205, 127, 3, 65, 184, 26, 20, 209, 176, 152, 216, 46, 83, 53, 139, 135,
    18, 28, 63, 5, 215, 164, 177, 245, 188, 224, 250, 44, 218, 116, 124, 38, 113, 134, 159, 54,
    15, 17, 158, 140, 114, 220, 51, 85, 255, 2, 172, 206, 37, 143, 117, 99, 240, 242, 203, 98,
    123, 144, 219, 133, 141, 39, 213, 7, 33, 69, 12, 80, 93, 42, 252, 194, 229, 239, 122, 118,
    204, 174, 211, 41, 105, 81, 48, 237, 231, 73, 192, 254, 130, 52, 161, 47, 92, 106, 13, 56,
    10, 71, 233, 191, 88, 232, 76, 11, 108, 34, 23, 183, 170, 4, 155, 29, 198, 227, 196, 31,
    9, 78, 14, 138, 160, 84, 131, 221, 236, 91, 82, 162, 217, 146, 251, 104, 94, 212, 112, 142,
    125, 207, 22, 68, 109, 8, 58, 197, 62, 156, 19, 168, 185, 182, 67, 35, 208, 167, 27, 157,
    136, 16, 137, 55, 79, 107, 70, 77, 57, 32, 110, 214, 154, 64, 171, 128, 256
  >>

\* The entry two places on, the one of the next odd value.
INV_MOD_256_next_odd(value) == INV_MOD_256_TABLE[((value + 2) % 256) + 1]

\* INV_MOD_256.get_unchecked(value): the table is indexed from 0.
INV_MOD_256(value) == INV_MOD_256_TABLE[value + 1]

\* INV_MOD_257.get_unchecked(value)
INV_MOD_257(value) == INV_MOD_257_TABLE[value + 1]

\* Payload::mul_scalar(c, modulus): element-wise product modulo p.
mul_scalar(pl, c, p) == [k \in 1..Len(pl) |-> (pl[k] * c) % p]

\* Payload::sub_assign(&rhs, modulus): element-wise difference modulo p.
sub_assign(pl, rhs, p) == [k \in 1..Len(pl) |-> (pl[k] + p - rhs[k]) % p]

\* Payload::new(): the all-zero payload.
PayloadNew == [k \in 1..PayloadLen |-> 0]

-----------------------------------------------------------------------------
(* matrix.rs: Gaussian elimination and back substitution.  The three        *)
(* solvers share their text; they differ in the pivot test and in where    *)
(* the inverse of the pivot comes from.                                    *)

num_rows(m) == Len(m)
num_cols(m) == Len(m[1])

\* slice::swap(i, j)
swap(s, i, j) == [s EXCEPT ![i] = s[j], ![j] = s[i]]

\* A pivot test that takes any non-zero entry, also modulo 256.
pivot_test_nonzero(kind, v) == v # 0

\* The pivot test of the search loop: odd for mod 256, non-zero otherwise.
pivot_test(kind, v) == IF kind = "mod256" THEN v % 2 = 1 ELSE v # 0

\* A search that keeps the last row j >= i passing the test in column i.
pick_index_last(kind, m, i) ==
    LET cand == {j \in i..num_rows(m) : pivot_test(kind, m[j][i])}
    IN  IF cand = {} THEN 0 ELSE CHOOSE j \in cand : \A k \in cand : k <= j

\* The search loop: the first row j >= i passing the test in column i, 0 for None.
pick_index(kind, m, i) ==
    LET cand == {j \in i..num_rows(m) : pivot_test(kind, m[j][i])}
    IN  IF cand = {} THEN 0 ELSE Min(cand)

\* The inverse the solver multiplies row i with, and the gcd the generic one asserts on.
pivot_inverse(kind, value, p) ==
    CASE kind = "mod256" -> [inv |-> INV_MOD_256(value), gcd |-> 1]
      [] kind = "mod257" -> [inv |-> INV_MOD_257(value), gcd |-> 1]
      [] OTHER -> gcdinv(value, p)

\* A normalisation that sets the diagonal and leaves the rest of the row unscaled.
normalize_row_diagonal_only(row, i, inv, p) ==
    [c \in 1..Len(row) |-> IF c = i THEN 1 ELSE row[c]]

\* mat_set(i, i, 1) and reduce_mul_assign(w, inv) for the entries right of the diagonal.
normalize_row(row, i, inv, p) ==
    [c \in 1..Len(row) |->
        IF c = i THEN 1 ELSE IF c > i THEN (row[c] * inv) % p ELSE row[c]]

\* An elimination that updates only the entries right of column i.
eliminate_row_right_of_pivot(row_r, row_i, i, p) ==
    LET c == row_r[i]
    IN  IF c = 0 THEN row_r
        ELSE [k \in 1..Len(row_r) |->
                 IF k > i THEN (row_r[k] + p - ((row_i[k] * c) % p)) % p ELSE row_r[k]]

\* row_r[i..] -= row_i[i..] * c with c = row_r[i], skipped when c = 0.
eliminate_row(row_r, row_i, i, p) ==
    LET c == row_r[i]
    IN  IF c = 0 THEN row_r
        ELSE [k \in 1..Len(row_r) |->
                 IF k >= i THEN (row_r[k] + p - ((row_i[k] * c) % p)) % p ELSE row_r[k]]

\* payloads[r] -= payloads[i] * c, skipped when c = 0.
eliminate_payload(pl_r, pl_i, c, p) ==
    IF c = 0 THEN pl_r ELSE sub_assign(pl_r, mul_scalar(pl_i, c, p), p)

\* The forward loop from column i on (for i in 0..num_cols); pv lists, for the steps
\* done, the row picked, column i as the search saw it, and the matrix and the
\* payloads before and after the swap.
RECURSIVE forward_elimination(_, _, _, _, _, _)
forward_elimination(kind, p, m, pl, i, pv) ==
    IF i > num_cols(m) THEN [status |-> "Ok", matrix |-> m, payloads |-> pl, pivots |-> pv]
    ELSE
    LET j == pick_index(kind, m, i) IN
    IF j = 0 THEN [status |-> "Err", matrix |-> m, payloads |-> pl, pivots |-> pv]
    ELSE
    LET m1    == IF i # j THEN swap(m, i, j) ELSE m
        pl1   == IF i # j THEN swap(pl, i, j) ELSE pl
        value == m1[i][i]
        gi    == pivot_inverse(kind, value, p)
        pv1   == Append(pv, [row |-> j, value |-> value,
                             column |-> [r \in 1..num_rows(m) |-> m[r][i]],
                             matrix |-> m, payloads |-> pl,
                             swapped_matrix |-> m1, swapped_payloads |-> pl1])
    IN
    IF value # 1 /\ gi.gcd # 1
    THEN [status |-> "Panic", matrix |-> m1, payloads |-> pl1, pivots |-> pv1]
    ELSE
    LET m2  == IF value # 1
               THEN [m1 EXCEPT ![i] = normalize_row(m1[i], i, gi.inv, p)]
               ELSE m1
        pl2 == IF value # 1
               THEN [pl1 EXCEPT ![i] = mul_scalar(pl1[i], gi.inv, p)]
               ELSE pl1
    IN
    IF i = num_cols(m) THEN [status |-> "Ok", matrix |-> m2, payloads |-> pl2, pivots |-> pv1]
    ELSE
    LET m3  == [r \in 1..Len(m2) |->
                   IF r > i THEN eliminate_row(m2[r], m2[i], i, p) ELSE m2[r]]
        pl3 == [r \in 1..Len(pl2) |->
                   IF r > i THEN eliminate_payload(pl2[r], pl2[i], m2[r][i], p)
                   ELSE pl2[r]]
    IN  WithValue([m |-> m3, pl |-> pl3, pv |-> pv1],
                  LAMBDA s : forward_elimination(kind, p, s.m, s.pl, i + 1, s.pv))

\* The backward loop from column i_cols down (for i_cols in (1..num_cols).rev()).
RECURSIVE backward_substitution(_, _, _, _)
backward_substitution(p, m, pl, i_cols) ==
    IF i_cols < 2 THEN [matrix |-> m, payloads |-> pl]
    ELSE
    LET m1  == [r \in 1..Len(m) |->
                   IF r < i_cols /\ m[r][i_cols] # 0
                   THEN [m[r] EXCEPT ![i_cols] = 0] ELSE m[r]]
        pl1 == [r \in 1..Len(pl) |->
                   IF r < i_cols /\ m[r][i_cols] # 0
                   THEN sub_assign(pl[r], mul_scalar(pl[i_cols], m[r][i_cols], p), p)
                   ELSE pl[r]]
    IN  WithValue([m |-> m1, pl |-> pl1],
                  LAMBDA s : backward_substitution(p, s.m, s.pl, i_cols - 1))

\* A solver that does not take a matrix without columns.
solve_nonempty(kind, p, m, pl) ==
    [status |-> IF Len(m) = 0 \/ Len(m[1]) = 0 THEN "Panic" ELSE "Err",
     value |-> <<>>, matrix |-> m, payloads |-> pl, pivots |-> <<>>, forward |-> m]

\* A solver that also wants the rows below the last pivot to agree with the solution.
solve_checking_rows(kind, p, m, pl) ==
    IF Len(m) = 0 \/ num_rows(m) < num_cols(m)
    THEN [status |-> "Panic", value |-> <<>>, matrix |-> m, payloads |-> pl,
          pivots |-> <<>>, forward |-> m]
    ELSE
    WithValue(forward_elimination(kind, p, m, pl, 1, <<>>), LAMBDA f :
        IF f.status # "Ok"
        THEN [status |-> f.status, value |-> <<>>,
              matrix |-> f.matrix, payloads |-> f.payloads,
              pivots |-> f.pivots, forward |-> f.matrix]
        ELSE IF \E r \in (num_cols(m) + 1)..num_rows(m) :
                    f.payloads[r] # (IF num_cols(m) = 0 THEN PayloadNew
                                     ELSE mul_scalar(f.payloads[num_cols(m)],
                                                     f.matrix[r][num_cols(m)], p))
        THEN [status |-> "Err", value |-> <<>>,
              matrix |-> f.matrix, payloads |-> f.payloads,
              pivots |-> f.pivots, forward |-> f.matrix]
        ELSE WithValue(backward_substitution(p, f.matrix, f.payloads, num_cols(m)),
                       LAMBDA b : [status |-> "Ok",
                                   value |-> SubSeq(b.payloads, 1, num_cols(m)),
                                   matrix |-> b.matrix, payloads |-> b.payloads,
                                   pivots |-> f.pivots, forward |-> f.matrix]))

\* One whole call: what is returned, what is left in the two slices, and what the
\* call did on the way.
solve(kind, p, m, pl) ==
    IF Len(m) = 0 \/ num_rows(m) < num_cols(m)
    THEN [status |-> "Panic", value |-> <<>>, matrix |-> m, payloads |-> pl,
          pivots |-> <<>>, forward |-> m]
    ELSE
    WithValue(forward_elimination(kind, p, m, pl, 1, <<>>), LAMBDA f :
        IF f.status # "Ok"
        THEN [status |-> f.status, value |-> <<>>,
              matrix |-> f.matrix, payloads |-> f.payloads,
              pivots |-> f.pivots, forward |-> f.matrix]
        ELSE WithValue(backward_substitution(p, f.matrix, f.payloads, num_cols(m)),
                       LAMBDA b : [status |-> "Ok",
                                   value |-> SubSeq(b.payloads, 1, num_cols(m)),
                                   matrix |-> b.matrix, payloads |-> b.payloads,
                                   pivots |-> f.pivots, forward |-> f.matrix]))

solve_matrix_mod_256(m, pl) == solve("mod256", 256, m, pl)

solve_matrix_mod_257(m, pl) == solve("mod257", 257, m, pl)

solve_matrix(m, pl, p) == solve("generic", p, m, pl)

-----------------------------------------------------------------------------
(* A call of a solver on b = A * x *)

\* Payload j of the payload list of base xb.
SamplePayload(xb, j, p) == [k \in 1..PayloadLen |-> (xb + 7 * j + k - 1) % p]

RECURSIVE CombineUpTo(_, _, _, _)
\* The sum over j <= n of row[j] * x[j], payload-wise modulo p.
CombineUpTo(row, x, p, n) ==
    IF n = 0 THEN PayloadNew
    ELSE LET acc == CombineUpTo(row, x, p, n - 1)
             t   == mul_scalar(x[n], row[n], p)
         IN  [k \in 1..PayloadLen |-> (acc[k] + t[k]) % p]

\* b = A * x
MatMulPayloads(A, x, p) == [r \in 1..Len(A) |-> CombineUpTo(A[r], x, p, Len(x))]

\* No session runs: the state of the session variables under SpecSolve.
\* No function is called.
FunctionIdle ==
    /\ fn = "none"
    /\ args = <<>>
    /\ ret = [status |-> "None"]

\* No thread is in detect.
ConcurrentIdle ==
    /\ detector = [first_level_lut |-> <<>>, second_level_lut |-> <<>>, n_inv |-> 0]
    /\ calls = <<>>

DetectIdle ==
    /\ dpc = "idle"
    /\ same_key = FALSE
    /\ clues = <<>>
    /\ intermediate = 0
    /\ ciphertext = <<>>

SessionIdle ==
    /\ params = [index_modulus |-> 0]
    /\ pertinent = {}
    /\ board = <<>>
    /\ seed = 0
    /\ index_digest = <<>>
    /\ index_assign = <<>>
    /\ payload_digest = <<>>
    /\ encode_panicked = FALSE
    /\ pertinent_indices_set = {}
    /\ last_call = "none"
    /\ indices_result = [status |-> "None"]
    /\ digest_result = [status |-> "None"]
    /\ decode_log = <<>>

\* Shapes <<rows, cols>> with more equations than unknowns.
OverDetermined == {<<2, 1>>, <<3, 2>>}

\* The shapes <<rows, cols>> of the matrices: square ones, one with no column, and
\* the over-determined ones.
Shapes == {<<1, 0>>} \cup {<<n, n>> : n \in 1..MaxCols} \cup OverDetermined

\* b with delta added to every byte of its last row.
Tampered(b, delta, p) ==
    [r \in 1..Len(b) |->
        IF r = Len(b) THEN [k \in 1..Len(b[r]) |-> (b[r][k] + delta) % p] ELSE b[r]]

SolverCalls ==
    {<<"mod256", 256>>, <<"mod257", 257>>} \cup {<<"generic", g>> : g \in GenericModuli}

InitSolve ==
    \E call \in SolverCalls, sh \in Shapes :
    \E A \in [1..sh[1] -> [1..sh[2] -> SampleVals]], xb \in SampleBases :
    \E delta \in IF sh \in OverDetermined THEN {0, 1} ELSE {0} :
        LET p == call[2]
            x == [j \in 1..sh[2] |-> SamplePayload(xb, j, p)]
            b == Tampered(MatMulPayloads(A, x, p), delta, p)
        IN  /\ SessionIdle
            /\ DetectIdle
            /\ ConcurrentIdle
            /\ FunctionIdle
            /\ spc = "call"
            /\ solver = call[1]
            /\ modulus_value = p
            /\ matrix = A
            /\ matrix_in = A
            /\ x_true = x
            /\ payloads = b
            /\ payloads_in = b
            /\ result = [status |-> "None", value |-> <<>>]
            /\ solve_trace = [pivots |-> <<>>, forward |-> <<>>]

Returned(r) ==
    /\ spc' = "returned"
    /\ result' = [status |-> r.status, value |-> r.value]
    /\ matrix' = r.matrix
    /\ payloads' = r.payloads
    /\ solve_trace' = [pivots |-> r.pivots, forward |-> r.forward]
    /\ UNCHANGED <<solver, modulus_value, x_true, matrix_in, payloads_in>>
    /\ UNCHANGED <<sessionVars, encoderVars, retrieverVars, detectVars, concurrentVars, functionVars>>

CallSolveMod256 ==
    /\ spc = "call" /\ solver = "mod256"
    /\ Returned(solve_matrix_mod_256(matrix, payloads))

CallSolveMod257 ==
    /\ spc = "call" /\ solver = "mod257"
    /\ Returned(solve_matrix_mod_257(matrix, payloads))

CallSolveGeneric ==
    /\ spc = "call" /\ solver = "generic"
    /\ Returned(solve_matrix(matrix, payloads, modulus_value))

NextSolve == CallSolveMod256 \/ CallSolveMod257 \/ CallSolveGeneric

SpecSolve == InitSolve /\ [][NextSolve]_vars

-----------------------------------------------------------------------------
(* Ground truth for the solver claims *)

\* A without its first row and without column c.
Minor(A, c) ==
    [r \in 1..(Len(A) - 1) |->
        [k \in 1..(Len(A) - 1) |-> A[r + 1][IF k < c THEN k ELSE k + 1]]]

RECURSIVE Det(_, _), DetSum(_, _, _)
\* The determinant of the square matrix A modulo p (expansion along the first row).
Det(A, p) ==
    IF Len(A) = 0 THEN 1 % p
    ELSE IF Len(A) = 1 THEN A[1][1] % p
    ELSE DetSum(A, p, Len(A))

DetSum(A, p, c) ==
    IF c = 0 THEN 0
    ELSE LET term == (A[1][c] * Det(Minor(A, c), p)) % p
             sgn  == IF c % 2 = 1 THEN term ELSE (p - term) % p
         IN  (DetSum(A, p, c - 1) + sgn) % p

IsSquare(A) == Len(A) > 0 /\ Len(A) = Len(A[1])

\* A is invertible over Z/p: its determinant is a unit.
Invertible(A, p) == Gcd(Det(A, p), p) = 1

\* The rows of A that f selects.
RowsOf(A, f) == [a \in DOMAIN f |-> A[f[a]]]

\* A has full column rank over Z/p: some square choice of its rows has a unit
\* determinant.
FullColumnRank(A, p) ==
    \/ Len(A[1]) = 0
    \/ \E f \in [1..Len(A[1]) -> 1..Len(A)] :
          /\ \A a \in 1..(Len(A[1]) - 1) : f[a] < f[a + 1]
          /\ Gcd(Det(RowsOf(A, f), p), p) = 1

\* The solvers the claims speak of: mod 256, mod 257, and the generic one on a prime.
PrimeOrTableCall == solver \in {"mod256", "mod257"} \/ IsPrime(modulus_value)

\* C1: a solver called on an invertible n x n matrix A and b = A * x returns Ok(x).
C1_SolverRoundTrip ==
    (spc = "returned" /\ PrimeOrTableCall /\ IsSquare(matrix_in)
        /\ Invertible(matrix_in, modulus_value))
    => (result.status = "Ok" /\ result.value = x_true)

C1_Witness ==
    /\ spc = "returned" /\ solver = "mod256" /\ Len(matrix_in) = 2
    /\ IsSquare(matrix_in)
    /\ Invertible(matrix_in, 256)
    /\ matrix_in[1][1] = 2
    /\ result.status = "Ok"

\* C2: a solver called on a singular matrix returns Err(InvertibleMatrix) and does not panic.
C2_SingularIsErr ==
    (spc = "returned" /\ PrimeOrTableCall /\ IsSquare(matrix_in)
        /\ ~Invertible(matrix_in, modulus_value))
    => result.status = "Err"

C2_Witness ==
    /\ spc = "returned" /\ solver = "mod256" /\ Len(matrix_in) = 2
    /\ IsSquare(matrix_in)
    /\ matrix_in[1][1] = 3 /\ matrix_in[2][2] # 0
    /\ ~Invertible(matrix_in, 256)
    /\ result.status = "Err"

\* The rows of A whose entry in the first column is odd.
OddInFirstColumn(A) == {r \in 1..Len(A) : A[r][1] % 2 = 1}

\* C14: at every elimination step i of solve_matrix_mod_256 the row picked is the
\* lowest row j >= i with an odd entry in column i, rows i and j are swapped in the
\* matrix and in the payloads, and the call fails only when no such row is left;
\* an invertible matrix whose first column has exactly one odd entry is solved.
C14_PivotChoiceMod256 ==
    (spc = "returned" /\ solver = "mod256" /\ result.status # "Panic") =>
        LET pv == solve_trace.pivots
            n  == Len(pv)
        IN  /\ \A i \in 1..n :
                  /\ pv[i].row >= i
                  /\ pv[i].column[pv[i].row] % 2 = 1
                  /\ \A r \in i..(pv[i].row - 1) : pv[i].column[r] % 2 = 0
                  /\ pv[i].swapped_matrix = swap(pv[i].matrix, i, pv[i].row)
                  /\ pv[i].swapped_payloads = swap(pv[i].payloads, i, pv[i].row)
            /\ result.status = "Err" =>
                  \A r \in (n + 1)..Len(solve_trace.forward) :
                      solve_trace.forward[r][n + 1] % 2 = 0
            /\ result.status = "Ok" => n = num_cols(matrix_in)
            /\ (IsSquare(matrix_in) /\ Invertible(matrix_in, 256)
                    /\ Cardinality(OddInFirstColumn(matrix_in)) = 1)
                  => (result.status = "Ok" /\ result.value = x_true)

C14_Witness ==
    /\ spc = "returned" /\ solver = "mod256"
    /\ Len(matrix_in) = 3 /\ num_cols(matrix_in) = 2
    /\ OddInFirstColumn(matrix_in) = {2, 3}
    /\ solve_trace.pivots[1].row = 2
    /\ matrix_in[1][1] = 2
    /\ payloads_in[1] # payloads_in[2]
    /\ result.status = "Ok"

\* C15: the generic solver picks the first row at or below the diagonal with a
\* non-zero entry in the pivot column, and a call in which a picked pivot is not
\* invertible modulo p reports the InvertibleMatrix error.
C15_NonInvertiblePivotIsErr ==
    (spc = "returned" /\ solver = "generic") =>
        LET pv == solve_trace.pivots
        IN  /\ \A i \in 1..Len(pv) :
                  /\ pv[i].row >= i
                  /\ pv[i].column[pv[i].row] # 0
                  /\ \A r \in i..(pv[i].row - 1) : pv[i].column[r] = 0
            /\ (\E i \in 1..Len(pv) : Gcd(pv[i].value, modulus_value) # 1)
                  => result.status = "Err"

\* Entry (r, c) of the upper-left num_cols x num_cols block of m is what it is in an
\* upper-triangular matrix with unit diagonal.
UnitUpperTriangular(m, n) ==
    \A r \in 1..n : \A c \in 1..n :
        /\ c = r => m[r][c] = 1
        /\ c < r => m[r][c] = 0

\* The upper-left n x n block of m is the identity.
IdentityBlock(m, n) ==
    \A r \in 1..n : \A c \in 1..n : m[r][c] = (IF r = c THEN 1 ELSE 0)

\* C16: when a solver returns Ok, the matrix after the forward pass has an
\* upper-triangular num_cols x num_cols top block with unit diagonal, the matrix
\* after back-substitution has the identity there, and the value returned is the
\* first num_cols rows of the payloads left in place.
C16_SolverPostState ==
    (spc = "returned" /\ result.status = "Ok") =>
        LET n == num_cols(matrix_in)
        IN  /\ UnitUpperTriangular(solve_trace.forward, n)
            /\ IdentityBlock(matrix, n)
            /\ Len(result.value) = n
            /\ \A r \in 1..n : result.value[r] = payloads[r]

C16_Witness ==
    /\ spc = "returned" /\ result.status = "Ok"
    /\ num_cols(matrix_in) = 2
    /\ solve_trace.forward[1][2] # 0
    /\ matrix[1][2] = 0
    /\ matrix_in[1][1] # 1
    /\ matrix_in[2][1] # 0

\* C17: a solver that returns the InvertibleMatrix error hands no value back and
\* leaves the matrix and the payloads of its caller as they were passed in.
C17_FailureExposesNothing ==
    (spc = "returned" /\ result.status = "Err") =>
        /\ result.value = <<>>
        /\ matrix = matrix_in
        /\ payloads = payloads_in

RECURSIVE PivotRows(_, _, _)
\* The rows of the matrix passed in that the steps from k on leave in places 1, 2, ...
\* when perm is where the rows stand before step k.
PivotRows(pv, k, perm) ==
    IF k > Len(pv) THEN perm ELSE PivotRows(pv, k + 1, swap(perm, k, pv[k].row))

\* Equation r of the system passed in holds for the payloads x.
EquationHolds(r, x) ==
    CombineUpTo(matrix_in[r], x, modulus_value, Len(x)) = payloads_in[r]

\* C19: on a system with more rows than columns a solver returns Ok exactly when it
\* finds a pivot in every column; the payloads returned solve the equations of the
\* rows used as pivots, whether or not the other rows agree.
C19_OverDeterminedUnchecked ==
    (spc = "returned" /\ num_rows(matrix_in) > num_cols(matrix_in) /\ PrimeOrTableCall) =>
        LET n    == num_cols(matrix_in)
            rows == PivotRows(solve_trace.pivots, 1, [r \in 1..num_rows(matrix_in) |-> r])
        IN  /\ result.status \in {"Ok", "Err"}
            /\ result.status = "Ok" <=> Len(solve_trace.pivots) = n
            /\ result.status = "Ok" <=> FullColumnRank(matrix_in, modulus_value)
            /\ result.status = "Ok" =>
                  \A k \in 1..n : EquationHolds(rows[k], result.value)

C19_Witness ==
    /\ spc = "returned" /\ result.status = "Ok"
    /\ num_rows(matrix_in) = 3 /\ num_cols(matrix_in) = 2
    /\ ~EquationHolds(3, result.value)
    /\ solve_trace.pivots[1].row = 2
    /\ result.value = x_true

-----------------------------------------------------------------------------
(* parameters/retrieval_params.rs *)

FieldHalf == 500001

\* Stand-in for SecondLevelField::MODULUS_VALUE (1125899906826241): odd like it, and
\* scaled so that coefficient * p stays inside TLC's 32-bit integers.
FieldModulus == 2 * FieldHalf + 1

\* bucket_count_per_segment (130 in generate_retriever), scaled.
BucketCount == 2

\* polynomial_size (the second-level ring dimension, 2048), scaled: one segment of
\* buckets of three slots fits.
polynomial_size == 3 * BucketCount

\* Largest number of messages on the board.
MaxN == 3

\* Largest number of index-digest ciphertexts the detector builds in a session.
MaxIndexCiphers == 2

\* The index moduli of the sessions: a prime power of two, the default one and 257.
IndexModuli == {2, 256, 257}

\* The session seeds: the state the generator starts from.
Seeds == {0, 1, 3}

RECURSIVE trailing_zeros(_)
trailing_zeros(n) == IF n % 2 = 1 THEN 0 ELSE 1 + trailing_zeros(n \div 2)

RECURSIVE is_power_of_two(_)
is_power_of_two(n) ==
    IF n = 1 THEN TRUE ELSE IF n < 1 \/ n % 2 = 1 THEN FALSE ELSE is_power_of_two(n \div 2)

RECURSIVE PowerOfTwoFrom(_, _)
PowerOfTwoFrom(n, t) == IF t >= n THEN t ELSE PowerOfTwoFrom(n, 2 * t)

\* usize::next_power_of_two
next_power_of_two(n) == PowerOfTwoFrom(n, 1)

RECURSIVE ilog(_, _)
\* usize::ilog(base): the logarithm rounded down
ilog(n, b) == IF n < b THEN 0 ELSE 1 + ilog(n \div b, b)

RECURSIVE pow(_, _)
pow(b, e) == IF e = 0 THEN 1 ELSE b * pow(b, e - 1)

div_ceil(a, b) == (a + b - 1) \div b

\* The number of index slots from the logarithm rounded down alone.
index_slots_per_bucket_ilog(index_modulus, all_payloads_count) ==
    IF is_power_of_two(index_modulus)
    THEN trailing_zeros(next_power_of_two(all_payloads_count))
            \div trailing_zeros(index_modulus)
    ELSE LET pow0 == ilog(all_payloads_count, index_modulus)
         IN  IF pow0 = 0 THEN 1 ELSE pow0

\* The number of index slots of a bucket, as RetrievalParams::new computes it.
index_slots_per_bucket(index_modulus, all_payloads_count) ==
    IF is_power_of_two(index_modulus)
    THEN div_ceil(trailing_zeros(next_power_of_two(all_payloads_count)),
                  trailing_zeros(index_modulus))
    ELSE LET pow0 == ilog(all_payloads_count, index_modulus)
             pow1 == IF pow(index_modulus, pow0) < all_payloads_count
                     THEN pow0 + 1 ELSE pow0
         IN  IF pow1 = 0 THEN 1 ELSE pow1

\* RetrievalParams::new
RetrievalParamsNew(index_modulus, poly_size, all_payloads_count, pertinent_count, bucket_count_per_segment, segment_count, cmb_count_per_cipher) ==
    LET slots_per_bucket  == index_slots_per_bucket(index_modulus, all_payloads_count) + 1
        slots_per_segment == slots_per_bucket * bucket_count_per_segment
        segment_per_cipher == poly_size \div slots_per_segment
    IN  [index_modulus |-> index_modulus,
         polynomial_size |-> poly_size,
         bucket_count_per_segment |-> bucket_count_per_segment,
         slots_per_bucket |-> slots_per_bucket,
         slots_per_segment |-> slots_per_segment,
         segment_count |-> segment_count,
         segment_per_cipher |-> segment_per_cipher,
         max_encode_indices_cipher_count |-> segment_count \div segment_per_cipher,
         pertinent_count |-> pertinent_count,
         combination_count |-> IF is_power_of_two(index_modulus)
                               THEN pertinent_count + 10 ELSE pertinent_count + 5,
         cmb_count_per_cipher |-> cmb_count_per_cipher,
         all_payloads_count |-> all_payloads_count]

-----------------------------------------------------------------------------
(* Ciphertexts are modelled by their decryption b - a * z2: one coefficient *)
(* of the field per slot.  A pertinency ciphertext decrypts to the constant *)
(* polynomial scale_one * bit.                                              *)

\* second_level_lut: scale_one = ((q >> log) + 1) >> 1 with log = log2(p) - 1,
\* that is q / p rounded half up.
scale_one(p) == (2 * FieldModulus + p) \div (2 * p)

\* The rounding closure of the two decoders: c * p / q rounded half up, p mapped to 0.
round_coeff(c, p) ==
    LET t == (2 * c * p + FieldModulus) \div (2 * FieldModulus)
    IN  IF t >= p THEN t - p ELSE t

RECURSIVE SumOver(_, _)
\* The sum of f over the finite set S of its domain.
SumOver(f, S) ==
    IF S = {} THEN 0
    ELSE LET e == CHOOSE e \in S : TRUE IN f[e] + SumOver(f, S \ {e})

RECURSIVE BitAnd(_, _)
\* a & b
BitAnd(a, b) ==
    IF a = 0 \/ b = 0 THEN 0 ELSE (a % 2) * (b % 2) + 2 * BitAnd(a \div 2, b \div 2)

RECURSIVE index_digits(_, _)
\* The digit loop of the encoder: i & mask, i >>= shift_bits, until i is zero, with
\* mask = p - 1 and shift_bits = p.trailing_zeros().  With a shift of zero bits
\* the loop does not end by itself (digit_loop_panics); nothing is listed then.
index_digits(i, p) ==
    IF i = 0 \/ trailing_zeros(p) = 0 THEN <<>>
    ELSE <<BitAnd(i, p - 1)>> \o index_digits(i \div pow(2, trailing_zeros(p)), p)

\* The digit loop leaves its chunk (an index out of bounds): the shift is by zero
\* bits and never empties i, or the digits do not fit behind the bucket's address.
digit_loop_panics(i, address, rp) ==
    \/ i # 0 /\ trailing_zeros(rp.index_modulus) = 0
    \/ address + Len(index_digits(i, rp.index_modulus)) > rp.slots_per_segment

\* Coefficient pos (0-based) of the plaintext polynomial of message i, whose bucket
\* in segment j is bucket_of[j].
message_poly(i, bucket_of, rp, pos) ==
    LET j       == pos \div rp.slots_per_segment
        o       == pos % rp.slots_per_segment
        digits  == index_digits(i, rp.index_modulus)
    IN  IF j >= rp.polynomial_size \div rp.slots_per_segment THEN 0
        ELSE LET address == bucket_of[j] * rp.slots_per_bucket
             IN  IF o = address + (rp.slots_per_bucket - 1) THEN 1
                 ELSE IF o >= address /\ o < address + Len(digits)
                      THEN digits[o - address + 1]
                      ELSE 0

\* compress_pertivency_vector: the sum over the messages of pertinency ciphertext
\* times plaintext polynomial; assign[j][i] is the bucket drawn for message i in
\* segment j.
compress_pertivency_vector(rp, pert, assign) ==
    [pos1 \in 1..rp.polynomial_size |->
        (scale_one(rp.index_modulus)
            * SumOver([i \in pert |->
                          message_poly(i, [j \in DOMAIN assign |-> assign[j][i]], rp, pos1 - 1)],
                      pert))
        % FieldModulus]

-----------------------------------------------------------------------------
(* The seeded generator and the payload digest *)

\* segment_count (25 in generate_retriever), scaled.
SegmentCount == 6

\* cmb_count_per_cipher: the payloads that fit into one ciphertext.
CmbCountPerCipher == polynomial_size \div PayloadLen

\* StdRng::from_seed(seed) with Uniform::new(0, p).sample_iter: a deterministic
\* stream of the seed; a Lehmer generator stands in for it.
RngNext(state) == (75 * state) % 65537

RECURSIVE sample_iter(_, _, _)
\* The first count samples of the stream that starts in state.
sample_iter(state, p, count) ==
    IF count = 0 THEN <<>>
    ELSE LET s2 == RngNext(state) IN <<s2 % p>> \o sample_iter(s2, p, count - 1)

RECURSIVE repeat_rows(_, _)
\* row, count times over.
repeat_rows(row, count) == IF count = 0 THEN <<>> ELSE row \o repeat_rows(row, count - 1)

\* Weights whose generator starts from the seed again at every row.
session_weights_reseeded(rp, sd) ==
    repeat_rows(sample_iter(sd, rp.index_modulus, rp.all_payloads_count), rp.combination_count)

\* The weights of a session in row-major order: row r (0-based) is
\* weights[r * N + 1 .. r * N + N].
session_weights(rp, sd) ==
    sample_iter(sd, rp.index_modulus, rp.combination_count * rp.all_payloads_count)

\* The payload digest: combination r is the sum over the pertinent messages i of
\* W[r, i] * payload_i; ciphertext n carries combinations n * cmb_count_per_cipher ...
\* as consecutive runs of PayloadLen coefficients.
encode_pertinent_payloads(rp, pert, pls, sd) ==
    LET p       == rp.index_modulus
        N       == rp.all_payloads_count
        cpc     == rp.cmb_count_per_cipher
        weights == session_weights(rp, sd)
        coeff(r, k) ==
            (scale_one(p)
                * SumOver([i \in pert |-> (weights[r * N + i + 1] * pls[i + 1][k]) % p], pert))
            % FieldModulus
    IN  [n \in 1..div_ceil(rp.combination_count, cpc) |->
            [pos1 \in 1..rp.polynomial_size |->
                LET slot == (pos1 - 1) \div PayloadLen
                    r    == (n - 1) * cpc + slot
                IN  IF slot < cpc /\ r < rp.combination_count
                    THEN coeff(r, ((pos1 - 1) % PayloadLen) + 1)
                    ELSE 0]]

-----------------------------------------------------------------------------
(* retriever.rs *)

RECURSIVE descending_seq(_)
\* The set in descending order.
descending_seq(S) ==
    IF S = {} THEN <<>>
    ELSE LET top == CHOOSE x \in S : \A y \in S : y <= x
         IN  <<top>> \o descending_seq(S \ {top})

RECURSIVE sorted_seq(_)
\* collect::<Vec<usize>>() followed by sort_unstable()
sorted_seq(S) == IF S = {} THEN <<>> ELSE <<Min(S)>> \o sorted_seq(S \ {Min(S)})

RECURSIVE fold_digits(_, _, _)
\* bucket.iter().rev().skip(1).fold(0, |acc, v| acc * p + v) over the digits from
\* position k on; for a power of two p this is (acc << shift_bits) | v.
fold_digits(digits, k, p) ==
    IF k > Len(digits) THEN 0 ELSE fold_digits(digits, k + 1, p) * p + digits[k]

\* A sentinel test that takes every non-zero value.
sentinel_is_nonzero(v) == v # 0

\* The test on a bucket's last slot.
sentinel_is_set(v) == v = 1

\* The indices one index-digest ciphertext yields: of every bucket whose sentinel
\* is one, the index its other slots spell.
decoded_indices(ct, rp) ==
    LET p       == rp.index_modulus
        decoded == [pos1 \in 1..Len(ct) |-> round_coeff(ct[pos1], p)]
        spb     == rp.slots_per_bucket
        sps     == rp.slots_per_segment
        bucket(j, b) == SubSeq(decoded, j * sps + b * spb + 1, j * sps + b * spb + spb)
    IN  {fold_digits(SubSeq(bucket(jb[1], jb[2]), 1, spb - 1), 1, p) :
            jb \in {x \in (0..(Len(ct) \div sps - 1)) \X (0..(sps \div spb - 1)) :
                       sentinel_is_set(bucket(x[1], x[2])[spb])}}

\* A success test that is content with at least pertinent_count indices.
indices_test_at_least(set, pertinent_count) == Cardinality(set) >= pertinent_count

\* The success test of decode_pertinent_indices.
indices_test(set, pertinent_count) == Cardinality(set) = pertinent_count

\* A decode that starts every call from an empty set.
decode_pertinent_indices_fresh(set, ct, rp) ==
    WithValue(decoded_indices(ct, rp), LAMBDA set2 :
        [set |-> set2,
         result |-> IF indices_test(set2, rp.pertinent_count)
                    THEN [status |-> "Ok", count |-> rp.pertinent_count]
                    ELSE [status |-> "Err"]])

\* A decode whose success test fails on every other call.
decode_pertinent_indices_alternating(set, ct, rp) ==
    WithValue(set \cup decoded_indices(ct, rp), LAMBDA set2 :
        [set |-> set2,
         result |-> IF indices_test(set2, rp.pertinent_count) /\ Len(decode_log) % 2 = 0
                    THEN [status |-> "Ok", count |-> rp.pertinent_count]
                    ELSE [status |-> "Err"]])

\* Retriever::decode_pertinent_indices: the set afterwards and the value returned.
decode_pertinent_indices(set, ct, rp) ==
    WithValue(set \cup decoded_indices(ct, rp), LAMBDA set2 :
        [set |-> set2,
         result |-> IF indices_test(set2, rp.pertinent_count)
                    THEN [status |-> "Ok", count |-> rp.pertinent_count]
                    ELSE [status |-> "Err"]])

\* A test that takes no outcome for a success.
is_ok_never(r) == FALSE

\* Result::is_ok on what decode_pertinent_indices returned.
is_ok(r) == r.result.status = "Ok"

RECURSIVE decode_loop(_, _, _, _)
\* The loop of decode_digest over the index-digest ciphertexts from number n on.
decode_loop(set, cts, rp, n) ==
    IF n > Len(cts) THEN [set |-> set, broke |-> FALSE, decoded |-> Len(cts)]
    ELSE WithValue(decode_pertinent_indices(set, cts[n], rp), LAMBDA r :
             IF is_ok(r)
             THEN [set |-> r.set, broke |-> TRUE, decoded |-> n]
             ELSE decode_loop(r.set, cts, rp, n + 1))

\* A decoder that reads every payload from the first ciphertext.
decode_combined_payloads_first_cipher(combinations, rp) ==
    [r1 \in 1..rp.combination_count |->
        LET slot == (r1 - 1) % rp.cmb_count_per_cipher
        IN  IF 0 < Len(combinations) /\ (slot + 1) * PayloadLen <= rp.polynomial_size
            THEN [k \in 1..PayloadLen |->
                     round_coeff(combinations[1][slot * PayloadLen + k], rp.index_modulus)]
            ELSE PayloadNew]

\* Retriever::decode_combined_payloads
decode_combined_payloads(combinations, rp) ==
    [r1 \in 1..rp.combination_count |->
        LET n    == (r1 - 1) \div rp.cmb_count_per_cipher
            slot == (r1 - 1) % rp.cmb_count_per_cipher
        IN  IF n < Len(combinations) /\ (slot + 1) * PayloadLen <= rp.polynomial_size
            THEN [k \in 1..PayloadLen |->
                     round_coeff(combinations[n + 1][slot * PayloadLen + k], rp.index_modulus)]
            ELSE PayloadNew]

\* A get_matrix that takes the leading columns of W whatever the indices are.
get_matrix_leading_columns(rp, sd, indices) ==
    LET weights == session_weights(rp, sd)
    IN  [r1 \in 1..rp.combination_count |->
            [j \in 1..Len(indices) |-> weights[(r1 - 1) * rp.all_payloads_count + j]]]

\* The closure get_matrix: W restricted to the columns of indices.
get_matrix(rp, sd, indices) ==
    LET weights == session_weights(rp, sd)
    IN  [r1 \in 1..rp.combination_count |->
            [j \in 1..Len(indices) |-> weights[(r1 - 1) * rp.all_payloads_count + indices[j] + 1]]]

\* Retriever::decode_digest: the set afterwards, the value returned, and what the
\* loop did.
decode_digest(set, rp, encode_pertinent_indices, encode_payloads, sd) ==
    WithValue(decode_loop(set, encode_pertinent_indices, rp, 1), LAMBDA loop :
    WithValue(sorted_seq(loop.set), LAMBDA indices :
        IF \E j \in 1..Len(indices) : indices[j] >= rp.all_payloads_count
        THEN [set |-> loop.set, broke |-> loop.broke, decoded |-> loop.decoded,
              solver |-> "none", matrix |-> <<>>, result |-> [status |-> "Panic"]]
        ELSE
        WithValue([m |-> get_matrix(rp, sd, indices),
                   combined |-> decode_combined_payloads(encode_payloads, rp)], LAMBDA inp :
        WithValue(IF rp.index_modulus = 256 THEN solve_matrix_mod_256(inp.m, inp.combined)
                  ELSE IF rp.index_modulus = 257 THEN solve_matrix_mod_257(inp.m, inp.combined)
                  ELSE solve_matrix(inp.m, inp.combined, rp.index_modulus), LAMBDA solved :
            [set |-> loop.set, broke |-> loop.broke, decoded |-> loop.decoded,
             solver |-> solved.status, matrix |-> inp.m,
             result |-> IF solved.status = "Ok"
                        THEN [status |-> "Ok", indices |-> indices, payloads |-> solved.value]
                        ELSE [status |-> solved.status]]))))

-----------------------------------------------------------------------------
(* A session: the detector encodes, the retriever decodes *)

SolverIdle ==
    /\ spc = "idle"
    /\ solver = "none"
    /\ modulus_value = 0
    /\ matrix = <<>>
    /\ payloads = <<>>
    /\ x_true = <<>>
    /\ matrix_in = <<>>
    /\ payloads_in = <<>>
    /\ result = [status |-> "None", value |-> <<>>]
    /\ solve_trace = [pivots |-> <<>>, forward |-> <<>>]

InitSession ==
    \E p \in IndexModuli, N \in 1..MaxN, xb \in SampleBases, sd \in Seeds :
    \E I \in SUBSET (0..(N - 1)), spare \in {-1, 0, 1} :
        /\ Cardinality(I) + spare >= 0
        /\ SolverIdle
        /\ DetectIdle
        /\ params = RetrievalParamsNew(p, polynomial_size, N, Cardinality(I) + spare,
                                       BucketCount, SegmentCount, CmbCountPerCipher)
        /\ pertinent = I
        /\ board = [i1 \in 1..N |-> SamplePayload(xb, i1, p)]
        /\ seed = sd
        /\ index_digest = <<>>
        /\ index_assign = <<>>
        /\ payload_digest = <<>>
        /\ encode_panicked = FALSE
        /\ pertinent_indices_set = {}
        /\ last_call = "none"
        /\ indices_result = [status |-> "None"]
        /\ digest_result = [status |-> "None"]
        /\ decode_log = <<>>
        /\ ConcurrentIdle
        /\ FunctionIdle

Alive == ~encode_panicked /\ digest_result.status # "Panic"

\* The detector has built its digests before the retriever starts on them.
Encoding == Alive /\ last_call = "none"

\* Detector::compress_pertivency_vector, once more
EncodeIndices ==
    /\ Encoding
    /\ Len(index_digest) < MaxIndexCiphers
    /\ \E assign \in [0..(params.segment_per_cipher - 1) ->
                        [0..(params.all_payloads_count - 1) ->
                            0..(params.bucket_count_per_segment - 1)]] :
          IF \E j \in DOMAIN assign, i \in 0..(params.all_payloads_count - 1) :
                 digit_loop_panics(i, assign[j][i] * params.slots_per_bucket, params)
          THEN /\ encode_panicked' = TRUE
               /\ UNCHANGED <<index_digest, index_assign>>
          ELSE /\ index_digest' =
                     Append(index_digest, compress_pertivency_vector(params, pertinent, assign))
               /\ index_assign' =
                     Append(index_assign,
                            [j \in DOMAIN assign |-> [i \in pertinent |-> assign[j][i]]])
               /\ UNCHANGED encode_panicked
    /\ UNCHANGED <<payload_digest, solverVars, sessionVars, retrieverVars, detectVars, concurrentVars, functionVars>>

\* The detector builds the payload digest.
EncodePayloads ==
    /\ Encoding
    /\ payload_digest = <<>>
    /\ payload_digest' = encode_pertinent_payloads(params, pertinent, board, seed)
    /\ UNCHANGED <<index_digest, index_assign, encode_panicked>>
    /\ UNCHANGED <<solverVars, sessionVars, retrieverVars, detectVars, concurrentVars, functionVars>>

\* Largest number of direct calls of decode_pertinent_indices in a session.
MaxDecodeCalls == 2

\* What a call of decode_pertinent_indices was given and what it left.
logged(ct, set, r) == [digest |-> ct, before |-> set, after |-> r.set, result |-> r.result]

\* Retriever::decode_pertinent_indices on one of the ciphertexts
DecodePertinentIndices ==
    /\ Alive
    /\ Len(decode_log) < MaxDecodeCalls
    /\ \E n \in 1..Len(index_digest) :
       \E r \in {decode_pertinent_indices(pertinent_indices_set, index_digest[n], params)} :
          /\ pertinent_indices_set' = r.set
          /\ indices_result' = r.result
          /\ decode_log' = Append(decode_log, logged(index_digest[n], pertinent_indices_set, r))
    /\ last_call' = "decode_pertinent_indices"
    /\ UNCHANGED <<digest_result, solverVars, sessionVars, encoderVars, detectVars, concurrentVars, functionVars>>

\* Retriever::decode_digest on all the ciphertexts built
DecodeDigest ==
    /\ Alive
    /\ payload_digest # <<>>
    /\ \E r \in {decode_digest(pertinent_indices_set, params, index_digest,
                                payload_digest, seed)} :
          /\ pertinent_indices_set' = r.set
          /\ digest_result' =
                r.result @@ [broke |-> r.broke, decoded |-> r.decoded, solver |-> r.solver,
                             matrix |-> r.matrix]
    /\ last_call' = "decode_digest"
    /\ UNCHANGED <<indices_result, decode_log, solverVars, sessionVars, encoderVars, detectVars,
                 concurrentVars, functionVars>>

NextSession == EncodeIndices \/ EncodePayloads \/ DecodePertinentIndices \/ DecodeDigest

SpecSession == InitSession /\ [][NextSession]_vars

-----------------------------------------------------------------------------
(* Ground truth for the retrieval claims *)

\* The payloads of the messages in indices, in that order.
BoardPayloads(indices) == [j \in 1..Len(indices) |-> board[indices[j] + 1]]

\* The pertinent messages that share the bucket of message i in segment j of
\* index ciphertext n.
BucketMates(n, j, i) ==
    {i2 \in pertinent : index_assign[n][j][i2] = index_assign[n][j][i]}

\* Message i has a bucket of its own in some segment of some index ciphertext.
AloneSomewhere(i) ==
    \E n \in 1..Len(index_assign) : \E j \in DOMAIN index_assign[n] :
        BucketMates(n, j, i) = {i}

\* The sentinel of bucket b in segment j of index ciphertext n, as decrypted.
SentinelOf(n, j, b) ==
    round_coeff(index_digest[n][j * params.slots_per_segment
                                + b * params.slots_per_bucket + params.slots_per_bucket],
                params.index_modulus)

\* The weights of the session restricted to the pertinent messages.
PertinentWeights == get_matrix(params, seed, sorted_seq(pertinent))

WithinBudget == Cardinality(pertinent) <= params.pertinent_count

AfterDecodeDigest == last_call = "decode_digest"

\* The good outcome of the round trip.
RoundTripOk ==
    /\ digest_result.status = "Ok"
    /\ digest_result.indices = sorted_seq(pertinent)
    /\ digest_result.payloads = BoardPayloads(sorted_seq(pertinent))

C6_FailureReported ==
    (AfterDecodeDigest /\ Len(index_digest) >= 1 /\ ~digest_result.broke)
    => digest_result.status = "Err"

\* C7: on success the indices are strictly ascending, there are as many payloads as
\* indices, and payloads[j] belongs to message indices[j]: when the indices are
\* the pertinent ones, it is that message's payload.
C7_SortedAndAligned ==
    (AfterDecodeDigest /\ digest_result.status = "Ok") =>
        /\ \A a \in 1..(Len(digest_result.indices) - 1) :
               digest_result.indices[a] < digest_result.indices[a + 1]
        /\ Len(digest_result.payloads) = Len(digest_result.indices)
        /\ {digest_result.indices[a] : a \in 1..Len(digest_result.indices)} = pertinent
           => \A a \in 1..Len(digest_result.indices) :
                  digest_result.payloads[a] = board[digest_result.indices[a] + 1]

C7_Witness ==
    /\ AfterDecodeDigest
    /\ digest_result.status = "Ok"
    /\ Len(digest_result.indices) = 2
    /\ digest_result.payloads = BoardPayloads(digest_result.indices)
    /\ board[digest_result.indices[1] + 1] # board[digest_result.indices[2] + 1]

C9_OkIffExactCount ==
    last_call = "decode_pertinent_indices" =>
        IF Cardinality(pertinent_indices_set) = params.pertinent_count
        THEN indices_result = [status |-> "Ok", count |-> params.pertinent_count]
        ELSE indices_result = [status |-> "Err"]

C9_Witness ==
    /\ last_call = "decode_pertinent_indices"
    /\ Cardinality(pertinent_indices_set) > params.pertinent_count
    /\ params.pertinent_count >= 1
    /\ indices_result.status = "Err"

\* C10: with one message and none pertinent, decode_digest returns Ok with no
\* indices and no payloads, and the solver it calls returns Ok.
C10_EmptyPertinentSet ==
    (/\ AfterDecodeDigest
     /\ params.all_payloads_count = 1
     /\ pertinent = {}
     /\ params.pertinent_count = 0)
    => /\ digest_result.status = "Ok"
       /\ digest_result.indices = <<>>
       /\ digest_result.payloads = <<>>
       /\ digest_result.solver = "Ok"

C10_Witness ==
    /\ AfterDecodeDigest
    /\ params.all_payloads_count = 1
    /\ pertinent = {}
    /\ params.pertinent_count = 0
    /\ Len(index_digest) = 2
    /\ digest_result.decoded = 1
    /\ digest_result.status = "Ok"
    /\ digest_result.payloads = <<>>

RECURSIVE StateAfter(_, _)
\* The state of the seeded generator after n draws.
StateAfter(state, n) == IF n = 0 THEN state ELSE StateAfter(RngNext(state), n - 1)

\* The n-th sample (from 1) of the stream of the session seed, in [0, p).
Draw(n) == StateAfter(seed, n) % params.index_modulus

\* C13: the matrix decode_digest solves has combination_count rows and one column
\* per recovered index, and its entry in row r and column j is draw number
\* r * N + I_j + 1 of the seed's stream (row-major W restricted to the sorted
\* recovered indices), whatever was decoded before.
C13_SharedSeedWeights ==
    (AfterDecodeDigest /\ digest_result.status # "Panic") =>
        LET indices == sorted_seq(pertinent_indices_set)
            A       == digest_result.matrix
        IN  /\ Len(A) = params.combination_count
            /\ \A r1 \in 1..Len(A) :
                  /\ Len(A[r1]) = Len(indices)
                  /\ \A j \in 1..Len(indices) :
                        A[r1][j] = Draw((r1 - 1) * params.all_payloads_count + indices[j] + 1)

C13_Witness ==
    /\ AfterDecodeDigest
    /\ digest_result.status = "Ok"
    /\ params.all_payloads_count = 3
    /\ digest_result.indices = <<0, 2>>
    /\ digest_result.matrix[1] # digest_result.matrix[2]
    /\ digest_result.matrix[1][1] # digest_result.matrix[1][2]

\* Calls a and b were given equal digests.
SameDigest(a, b) == decode_log[a].digest = decode_log[b].digest

\* Calls a and b left equal recovered sets and returned equal results.
SameOutcome(a, b) ==
    /\ decode_log[a].after = decode_log[b].after
    /\ decode_log[a].result = decode_log[b].result

C18_RecoveredSetOnlyGrows ==
    [][/\ pertinent_indices_set \subseteq pertinent_indices_set'
       /\ (last_call' = "decode_pertinent_indices" /\ indices_result'.status = "Ok")
             => Cardinality(pertinent_indices_set \cup pertinent_indices_set')
                   = params.pertinent_count
       /\ (last_call' = "decode_digest" /\ digest_result'.status = "Ok")
             => \A i \in pertinent_indices_set :
                   \E j \in 1..Len(digest_result'.indices) : digest_result'.indices[j] = i
      ]_vars

C18_Witness ==
    /\ AfterDecodeDigest
    /\ digest_result.status = "Ok"
    /\ digest_result.broke /\ digest_result.decoded = 1
    /\ Len(decode_log) = 1
    /\ decode_log[1].before = {}
    /\ decode_log[1].result.status = "Err"
    /\ decode_log[1].after \ decoded_indices(index_digest[1], params) # {}
    /\ decode_log[1].after \subseteq {digest_result.indices[j] : j \in 1..Len(digest_result.indices)}

\* The set S grown by what the first n index-digest ciphertexts spell.
Accumulated(S, n) ==
    S \cup UNION {decoded_indices(index_digest[k], params) : k \in 1..n}

\* The ciphertexts after which the set grown from S has pertinent_count elements.
Successes(S) ==
    {n \in 1..Len(index_digest) : Cardinality(Accumulated(S, n)) = params.pertinent_count}

\* C20: decode_digest decodes the index-digest ciphertexts in the order given up to
\* and including the first on which decode_pertinent_indices succeeds (all of them
\* when none does) and no ciphertext after it; the weight matrix and the indices
\* returned are those of the set left by that loop.
C20_StopsAtFirstSuccess ==
    [][last_call' = "decode_digest" =>
          LET S     == pertinent_indices_set
              first == IF Successes(S) = {} THEN Len(index_digest) ELSE Min(Successes(S))
          IN  /\ digest_result'.broke = (Successes(S) # {})
              /\ digest_result'.decoded = first
              /\ pertinent_indices_set' = Accumulated(S, first)
              /\ digest_result'.status # "Panic" =>
                    digest_result'.matrix
                        = get_matrix(params, seed, sorted_seq(Accumulated(S, first)))
              /\ digest_result'.status = "Ok" =>
                    digest_result'.indices = sorted_seq(Accumulated(S, first))
      ]_vars

C20_Witness ==
    /\ AfterDecodeDigest
    /\ digest_result.status = "Ok"
    /\ digest_result.broke /\ digest_result.decoded = 1
    /\ Len(index_digest) = 2
    /\ Len(decode_log) = 0
    /\ Len(digest_result.indices) = 2
    /\ index_digest[2] # index_digest[1]
    /\ decoded_indices(index_digest[2], params) = {}

-----------------------------------------------------------------------------
(* parameters/mod.rs, scaled: OmrParameters::new *)

\* clue_count (7 in OmrParameters::new), scaled.
clue_count == 2

clue_plain_modulus_value == 8

LogFirstLevelRingDimension == 4

\* N_1 (1024 in OmrParameters::new), scaled.
first_level_ring_dimension == pow(2, LogFirstLevelRingDimension)

\* The clue cipher modulus is 2 * N_1, as 2048 is to 1024.
clue_cipher_modulus_value == 2 * first_level_ring_dimension

FirstLevelHalf == 50001

\* Stand-in for FirstLevelField::MODULUS_VALUE (134215681), odd like it.
FirstLevelModulus == 2 * FirstLevelHalf + 1

intermediate_lwe_plain_modulus == 32

LogSecondLevelRingDimension == 6

\* N_2 (2048 in OmrParameters::new), scaled.
second_level_ring_dimension == pow(2, LogSecondLevelRingDimension)

\* The intermediate cipher modulus is 2 * N_2, as 4096 is to 2048.
intermediate_cipher_modulus_value == 2 * second_level_ring_dimension

output_plain_modulus_value == 256

\* The noise of a clue slot a sender of the detector's key pack leaves.
ClueNoise == 1

\* The noise key switching and modulus switching add to the intermediate phase.
IntermediateNoise == 1

\* The noise of the output ciphertext.
OutputNoise == 1

-----------------------------------------------------------------------------
(* lut.rs and detector.rs *)

\* Every entry twice: a0, a0, a1, a1, ...
interleave_each_twice(table) ==
    [e1 \in 1..(2 * Len(table) - 1) |-> table[((e1 - 1) \div 2) + 1]]

\* self.iter().interleave(self[1..].iter()): a0, a1, a1, a2, a2, ...
interleave(table) ==
    [e1 \in 1..(2 * Len(table) - 1) |-> table[((e1 - 1) \div 2) + ((e1 - 1) % 2) + 1]]

\* LookUpTable::negacyclic_lut: chunks of coeff_count >> log_t coefficients, chunk n
\* filled with the n-th interleaved value, the chunks left over zero.
negacyclic_lut(table, coeff_count, log_t) ==
    WithValue([half_delta |-> coeff_count \div pow(2, log_t), values |-> interleave(table)],
              LAMBDA c :
                  [k1 \in 1..coeff_count |->
                      IF (k1 - 1) \div c.half_delta < Len(c.values)
                      THEN c.values[((k1 - 1) \div c.half_delta) + 1] ELSE 0])

\* q >> (log + 1): the scale rounded down.
lut_scale_one_floor(q, output_plain_modulus) ==
    q \div pow(2, trailing_zeros(output_plain_modulus))

\* LookUpTable for LutFn: the table is f on 0..t-1 with t = 1 << log_t, interleaved
\* with f on 1..t-1.
negacyclic_lut_fn(f, coeff_count, log_t) ==
    negacyclic_lut([e1 \in 1..pow(2, log_t) |-> f[e1 - 1]], coeff_count, log_t)

\* ((q >> log) + 1) >> 1 with log = output_plain_modulus.trailing_zeros() - 1
lut_scale_one(q, output_plain_modulus) ==
    ((q \div pow(2, trailing_zeros(output_plain_modulus) - 1)) + 1) \div 2

\* A first table without the zero entries between s and -s.
first_level_lut_flat(rlwe_dimension, input_plain_modulus, output_plain_modulus) ==
    LET s == lut_scale_one(FirstLevelModulus, output_plain_modulus)
    IN  negacyclic_lut(<<s, s, s, s, FirstLevelModulus - s>>,
                       rlwe_dimension, trailing_zeros(input_plain_modulus))

\* first_level_lut
first_level_lut(rlwe_dimension, input_plain_modulus, output_plain_modulus) ==
    LET s == lut_scale_one(FirstLevelModulus, output_plain_modulus)
    IN  negacyclic_lut(<<s, 0, 0, 0, FirstLevelModulus - s>>,
                       rlwe_dimension, trailing_zeros(input_plain_modulus))

\* The entry at clue_count instead of twice that.
second_level_index_single(count) == count

\* The index of the one non-zero entry of the second table.
second_level_index(count) == count * 2

\* A second table that is non-zero from entry clue_count on.
second_level_lut_from_count(rlwe_dimension, count, input_plain_modulus, output_plain_modulus) ==
    WithValue(lut_scale_one(FieldModulus, output_plain_modulus), LAMBDA s :
        negacyclic_lut([e1 \in 1..input_plain_modulus |->
                           IF e1 - 1 >= count /\ e1 - 1 <= 2 * count THEN s ELSE 0],
                       rlwe_dimension, trailing_zeros(input_plain_modulus)))

\* second_level_lut
second_level_lut(rlwe_dimension, count, input_plain_modulus, output_plain_modulus) ==
    WithValue(lut_scale_one(FieldModulus, output_plain_modulus), LAMBDA s :
        negacyclic_lut([e1 \in 1..input_plain_modulus |->
                           IF e1 - 1 = second_level_index(count) THEN s ELSE 0],
                       rlwe_dimension, trailing_zeros(input_plain_modulus)))

\* lwe_modulus_switch on a phase: the nearest multiple, reduced.
modulus_switch(phase, from, to) == ((2 * phase * to + from) \div (2 * from)) % to

\* extract_clues_and_modulus_switch
extract_clues_and_modulus_switch(cs) ==
    IF clue_cipher_modulus_value # 2 * first_level_ring_dimension
    THEN [i \in 1..Len(cs) |->
             modulus_switch(cs[i], clue_cipher_modulus_value, 2 * first_level_ring_dimension)]
    ELSE cs

\* Coefficient k (0-based) of lut * X^(-phase) in Z_q[X]/(X^N + 1): what blind_rotate
\* leaves as the phase polynomial.
rotated_coeff(lut, phase, k, q) ==
    LET N  == Len(lut)
        at == (k + phase) % (2 * N)
    IN  IF at < N THEN lut[at + 1] ELSE (q - lut[at - N + 1]) % q

blind_rotate(lut, phase, q) ==
    WithValue(lut, LAMBDA l : [k1 \in 1..Len(l) |-> rotated_coeff(l, phase, k1 - 1, q)])

RECURSIVE sum_clues(_, _, _, _)
\* The reduce of first_level_bootstrapping, then extract_lwe_locally: the constant
\* coefficients of the rotated tables, summed; zero without clues.
sum_clues(lut, cs, n, q) ==
    IF n = 0 THEN 0
    ELSE (sum_clues(lut, cs, n - 1, q) + rotated_coeff(lut, cs[n], 0, q)) % q

\* Stand-in for InterLweValue::BITS (32): the width of a Native modulus.
InterLweBits == 12

\* The value of a ModulusValue; Native is the whole word.
modulus_of(m) == IF m.kind = "Native" THEN pow(2, InterLweBits) ELSE m.q

\* The step the match on intermediate_cipher_modulus_value yields for one clue.
clue_step(m, plain_modulus) ==
    LET log_plain_modulus == trailing_zeros(plain_modulus)
    IN  CASE m.kind = "Native"   -> pow(2, InterLweBits - log_plain_modulus)
          [] m.kind = "PowerOf2" -> m.q \div pow(2, log_plain_modulus)
          [] OTHER               ->
                 WithValue(m.q \div pow(2, log_plain_modulus - 1), LAMBDA temp :
                     (temp + 1) \div 2)

\* The body after the step is added once for every clue and again.
add_clue_count_twice(b, m, plain_modulus, count) ==
    LET q     == modulus_of(m)
        scale == 2 * count * clue_step(m, plain_modulus)
    IN  (b + (scale % q)) % q

\* "Add `clue count`": reduce_add_assign of the reduced scale on the body b.
add_clue_count(b, m, plain_modulus, count) ==
    LET q     == modulus_of(m)
        scale == count * clue_step(m, plain_modulus)
    IN  (b + (scale % q)) % q

\* lwe_modulus_switch on a ciphertext: every mask entry and the body.
lwe_modulus_switch(ct, from, to) ==
    [a |-> [i \in 1..Len(ct.a) |-> modulus_switch(ct.a[i], from, to)],
     b |-> modulus_switch(ct.b, from, to)]

\* first_level_bootstrapping, with noise e from key switching and modulus switching
first_level_bootstrapping(cs, lut, e) ==
    LET q     == intermediate_cipher_modulus_value
        sum   == WithValue(lut, LAMBDA l : sum_clues(l, cs, Len(cs), FirstLevelModulus))
        phase == (modulus_switch(sum, FirstLevelModulus, q) + q + e) % q
    IN  add_clue_count(phase, [kind |-> "PowerOf2", q |-> q],
                       intermediate_lwe_plain_modulus, clue_count)

\* second_level_bootstrapping
second_level_bootstrapping(inter, lut) ==
    LET switched == IF intermediate_cipher_modulus_value # 2 * second_level_ring_dimension
                    THEN modulus_switch(inter, intermediate_cipher_modulus_value,
                                        2 * second_level_ring_dimension)
                    ELSE inter
    IN  blind_rotate(lut, switched, FieldModulus)

RECURSIVE mul_mod(_, _, _)
\* a * b modulo q by doubling, so that no product leaves 32 bits.
mul_mod(a, b, q) ==
    IF b = 0 THEN 0
    ELSE WithValue(mul_mod((2 * a) % q, b \div 2, q), LAMBDA h :
             IF b % 2 = 1 THEN (h + a) % q ELSE h)

\* second_level_ring_dimension_inv
ring_dimension_inv == gcdinv(second_level_ring_dimension, FieldModulus).inv % FieldModulus

\* TraceKey::trace on a phase polynomial: every X^k with k # 0 sums to zero over
\* the automorphisms, the constant is counted N times.
trace(poly, q) ==
    [k1 \in 1..Len(poly) |-> IF k1 = 1 THEN mul_mod(poly[1], Len(poly), q) ELSE 0]

\* hom_trace
hom_trace(poly, n_inv) ==
    WithValue(n_inv, LAMBDA inv :
        WithValue([k1 \in 1..Len(poly) |-> mul_mod(poly[k1], inv, FieldModulus)],
                  LAMBDA scaled : trace(scaled, FieldModulus)))

\* The decode closure of examples/omd.rs: round(c * ft / fp) % ft
decode(c) ==
    ((2 * c * output_plain_modulus_value + FieldModulus) \div (2 * FieldModulus))
        % output_plain_modulus_value

-----------------------------------------------------------------------------
(* One detect call *)

\* The first and the last phase of every chunk of the first table, and of its
\* negacyclic half.
ChunkEdges ==
    LET half_delta == first_level_ring_dimension \div clue_plain_modulus_value
    IN  {ph \in 0..(clue_cipher_modulus_value - 1) :
            ph % half_delta = 0 \/ ph % half_delta = half_delta - 1}

InitDetect ==
    /\ SolverIdle
    /\ SessionIdle
    /\ ConcurrentIdle
    /\ FunctionIdle
    /\ dpc = "clues"
    /\ same_key \in BOOLEAN
    /\ clues \in [1..clue_count ->
                    IF same_key
                    THEN {(clue_cipher_modulus_value + e) % clue_cipher_modulus_value :
                             e \in (-ClueNoise)..ClueNoise}
                    ELSE ChunkEdges]
    /\ intermediate = 0
    /\ ciphertext = <<>>

ExtractClues ==
    /\ dpc = "clues"
    /\ clues' = extract_clues_and_modulus_switch(clues)
    /\ dpc' = "extracted"
    /\ UNCHANGED <<same_key, intermediate, ciphertext>>
    /\ UNCHANGED <<solverVars, sessionVars, encoderVars, retrieverVars, concurrentVars,
                 functionVars>>

FirstLevelBootstrapping ==
    /\ dpc = "extracted"
    /\ \E e \in (-IntermediateNoise)..IntermediateNoise :
          intermediate' =
              first_level_bootstrapping(
                  clues,
                  first_level_lut(first_level_ring_dimension, clue_plain_modulus_value,
                                  intermediate_lwe_plain_modulus),
                  e)
    /\ dpc' = "first"
    /\ UNCHANGED <<same_key, clues, ciphertext>>
    /\ UNCHANGED <<solverVars, sessionVars, encoderVars, retrieverVars, concurrentVars,
                 functionVars>>

SecondLevelBootstrapping ==
    /\ dpc = "first"
    /\ ciphertext' =
          second_level_bootstrapping(
              intermediate,
              second_level_lut(second_level_ring_dimension, clue_count,
                               intermediate_lwe_plain_modulus, output_plain_modulus_value))
    /\ dpc' = "second"
    /\ UNCHANGED <<same_key, clues, intermediate>>
    /\ UNCHANGED <<solverVars, sessionVars, encoderVars, retrieverVars, concurrentVars,
                 functionVars>>

\* hom_trace; the noise of the result is e0 on the constant coefficient and e1 on
\* the others.
HomTrace ==
    /\ dpc = "second"
    /\ \E traced \in {hom_trace(ciphertext, ring_dimension_inv)} :
       \E e0 \in (-OutputNoise)..OutputNoise, e1 \in (-OutputNoise)..OutputNoise :
          ciphertext' =
              [k1 \in 1..Len(traced) |->
                  (traced[k1] + FieldModulus + (IF k1 = 1 THEN e0 ELSE e1)) % FieldModulus]
    /\ dpc' = "done"
    /\ UNCHANGED <<same_key, clues, intermediate>>
    /\ UNCHANGED <<solverVars, sessionVars, encoderVars, retrieverVars, concurrentVars,
                 functionVars>>

NextDetect == ExtractClues \/ FirstLevelBootstrapping \/ SecondLevelBootstrapping \/ HomTrace

SpecDetect == InitDetect /\ [][NextDetect]_vars

-----------------------------------------------------------------------------
(* Ground truth for the detect claims *)

\* What decrypting the result of detect and decoding it gives in coefficient k1.
Decrypted(k1) == decode(ciphertext[k1])

\* The phase of a clue slot rounds to the message zero.
RoundsToZero(ph) ==
    LET delta == clue_cipher_modulus_value \div clue_plain_modulus_value
    IN  ((2 * ph + delta) \div (2 * delta)) % clue_plain_modulus_value = 0

AllZero == \A k1 \in 1..Len(ciphertext) : Decrypted(k1) = 0

\* C4: the result of detect on a clue of the detector's own key pack decrypts to
\* 1 in the constant coefficient and to 0 in every other.
C4_PertinentDetected ==
    (dpc = "done" /\ same_key) =>
        /\ Decrypted(1) = 1
        /\ \A k1 \in 2..Len(ciphertext) : Decrypted(k1) = 0

C4_Witness ==
    /\ dpc = "done"
    /\ same_key
    /\ clues[1] = clue_cipher_modulus_value - ClueNoise
    /\ clues[2] = ClueNoise
    /\ ciphertext[1] # ciphertext[2]
    /\ Decrypted(1) = 1
    /\ Len(ciphertext) = second_level_ring_dimension

\* C5 (as stated): the result of detect on a clue of another key pack decrypts to
\* 0 in every coefficient.
C5_ForeignNeverDetected == (dpc = "done" /\ ~same_key) => AllZero

\* C5 (amended): it does so when at least one clue slot does not round to zero
\* under the detector's key.
C5_ForeignNotDetectedUnlessAllZero ==
    (dpc = "done" /\ ~same_key /\ \E i \in 1..Len(clues) : ~RoundsToZero(clues[i]))
    => AllZero

C5_Witness ==
    /\ dpc = "done"
    /\ ~same_key
    /\ RoundsToZero(clues[1])
    /\ ~RoundsToZero(clues[2])
    /\ AllZero

-----------------------------------------------------------------------------
(* Several threads in Detector::detect on one Detector (examples/omd.rs runs *)
(* two calls under rayon::join).  detect takes &self and &clues; its locals  *)
(* clues, intermediate and ciphertext live in the frame of the call.         *)

\* The number of threads that call detect.
ThreadCount == 2

Threads == 1..ThreadCount

\* Detector::new: the two tables are built once and kept next to the key.
DetectorNew ==
    [first_level_lut |-> first_level_lut(first_level_ring_dimension, clue_plain_modulus_value,
                                         intermediate_lwe_plain_modulus),
     second_level_lut |-> second_level_lut(second_level_ring_dimension, clue_count,
                                           intermediate_lwe_plain_modulus,
                                           output_plain_modulus_value),
     n_inv |-> ring_dimension_inv]

\* The result of hom_trace with its noise: e0 on the constant coefficient, e1 on the others.
with_noise(traced, e0, e1) ==
    [k1 \in 1..Len(traced) |->
        (traced[k1] + FieldModulus + (IF k1 = 1 THEN e0 ELSE e1)) % FieldModulus]

\* Detector::detect as one function of the clue; nz is the noise the key leaves on
\* this clue.
detect(d, cs, nz) ==
    WithValue(first_level_bootstrapping(extract_clues_and_modulus_switch(cs),
                                        d.first_level_lut, nz.first), LAMBDA inter :
    WithValue(second_level_bootstrapping(inter, d.second_level_lut), LAMBDA rotated :
    WithValue(hom_trace(rotated, d.n_inv), LAMBDA traced :
        with_noise(traced, nz.out, -nz.out))))

\* The clues the threads pass: of the detector's key pack (noise around zero), and
\* of other key packs (every slot at the phase of one message value).
ConcurrentClues ==
    LET q     == clue_cipher_modulus_value
        delta == q \div clue_plain_modulus_value
    IN  {[i \in 1..clue_count |-> (q + (IF i = 1 THEN e ELSE -e)) % q] :
            e \in (-ClueNoise)..ClueNoise}
        \cup {[i \in 1..clue_count |-> m * delta] : m \in 0..(clue_plain_modulus_value - 1)}

\* The noise of a call: of the first level, and of the output.
CallNoise ==
    [first : {-IntermediateNoise, IntermediateNoise}, out : {-OutputNoise, OutputNoise}]

InitConcurrent ==
    /\ SolverIdle
    /\ SessionIdle
    /\ DetectIdle
    /\ FunctionIdle
    /\ detector = DetectorNew
    /\ \E inputs \in [Threads -> ConcurrentClues], nz \in [Threads -> CallNoise] :
          /\ \A t, u \in Threads : inputs[t] = inputs[u] => nz[t] = nz[u]
          /\ calls = [t \in Threads |->
                         [pc |-> "clues", input |-> inputs[t], noise |-> nz[t],
                          clues |-> <<>>, intermediate |-> 0, ciphertext |-> <<>>]]

\* A frame that is the first thread's whichever thread asks.
frame_of_first(t) == calls[1]

\* The frame of thread t's call.
frame(t) == calls[t]

ThreadExtractClues(t) ==
    /\ frame(t).pc = "clues"
    /\ calls' = [calls EXCEPT ![t].pc = "extracted",
                              ![t].clues = extract_clues_and_modulus_switch(frame(t).input)]
    /\ UNCHANGED <<detector, solverVars, sessionVars, encoderVars, retrieverVars, detectVars,
                 functionVars>>

ThreadFirstLevel(t) ==
    /\ frame(t).pc = "extracted"
    /\ calls' = [calls EXCEPT ![t].pc = "first",
                              ![t].intermediate =
                                  first_level_bootstrapping(frame(t).clues,
                                                            detector.first_level_lut,
                                                            frame(t).noise.first)]
    /\ UNCHANGED <<detector, solverVars, sessionVars, encoderVars, retrieverVars, detectVars,
                 functionVars>>

ThreadSecondLevel(t) ==
    /\ frame(t).pc = "first"
    /\ calls' = [calls EXCEPT ![t].pc = "second",
                              ![t].ciphertext =
                                  second_level_bootstrapping(frame(t).intermediate,
                                                             detector.second_level_lut)]
    /\ UNCHANGED <<detector, solverVars, sessionVars, encoderVars, retrieverVars, detectVars,
                 functionVars>>

ThreadHomTrace(t) ==
    /\ frame(t).pc = "second"
    /\ \E traced \in {hom_trace(frame(t).ciphertext, detector.n_inv)} :
          calls' = [calls EXCEPT ![t].pc = "done",
                                 ![t].ciphertext =
                                     with_noise(traced, frame(t).noise.out, -frame(t).noise.out)]
    /\ UNCHANGED <<detector, solverVars, sessionVars, encoderVars, retrieverVars, detectVars,
                 functionVars>>

NextConcurrent ==
    \E t \in Threads :
        \/ ThreadExtractClues(t)
        \/ ThreadFirstLevel(t)
        \/ ThreadSecondLevel(t)
        \/ ThreadHomTrace(t)

SpecConcurrent == InitConcurrent /\ [][NextConcurrent]_vars

\* C11: under every interleaving a detect call returns what it returns when run
\* alone, and no step changes the detector (key and tables) or a call's input clue.
C11_ConcurrentDetect ==
    /\ [](\A t \in Threads :
             calls[t].pc = "done"
             => calls[t].ciphertext = detect(DetectorNew, calls[t].input, calls[t].noise))
    /\ [][/\ detector' = detector
          /\ \A t \in Threads : /\ calls'[t].input = calls[t].input
                                /\ calls'[t].noise = calls[t].noise]_vars

C11_Witness ==
    /\ calls[1].pc = "first"
    /\ calls[2].pc = "done"
    /\ calls[1].input # calls[2].input
    /\ decode(calls[2].ciphertext[1]) = 1
    /\ calls[1].intermediate # 0

-----------------------------------------------------------------------------
(* Calls of the functions that read nothing but their arguments *)

\* Largest board of a call of RetrievalParams::new.
MaxBoard == 10

\* Largest segment_count of a call of RetrievalParams::new.
MaxSegments == 5

\* Index moduli of the calls: powers of two and others.
ParamModuli == {2, 3, 4, 6, 256, 257}

\* Ring dimensions of the calls.
PolySizes == {4, 16}

\* The arguments of RetrievalParams::new; pertinent_count and cmb_count_per_cipher
\* are passed through.
ParamsArgs ==
    [index_modulus : ParamModuli, polynomial_size : PolySizes,
     all_payloads_count : 1..MaxBoard, bucket_count_per_segment : 1..BucketCount,
     segment_count : 0..MaxSegments]

\* RetrievalParams::new on the arguments a: the division by segment_per_cipher
\* panics when not one segment fits into a ciphertext.
RetrievalParamsNewCall(a) ==
    IF a.polynomial_size
          < (index_slots_per_bucket(a.index_modulus, a.all_payloads_count) + 1)
                * a.bucket_count_per_segment
    THEN [status |-> "Panic"]
    ELSE [status |-> "Ok",
          value |-> RetrievalParamsNew(a.index_modulus, a.polynomial_size,
                                       a.all_payloads_count, 1, a.bucket_count_per_segment,
                                       a.segment_count, 1)]

\* The ring dimension of the calls that encode an index: a segment of two buckets
\* fits for every board.
EncodePolySize == 16

\* A message index i of a board of all_payloads_count messages and the bucket drawn
\* for it, under each index modulus.
EncodeArgs ==
    {a \in [index_modulus : ParamModuli, all_payloads_count : 1..MaxBoard,
            bucket_count_per_segment : 1..BucketCount,
            i : 0..(MaxBoard - 1), budget_index : 0..(BucketCount - 1)] :
        a.i < a.all_payloads_count /\ a.budget_index < a.bucket_count_per_segment}

\* The RetrievalParams of such a call: one segment.
EncodeParams(a) ==
    RetrievalParamsNew(a.index_modulus, EncodePolySize, a.all_payloads_count, 1,
                       a.bucket_count_per_segment, 1, 1)

\* compress_pertivency_vector on a board whose only pertinent message is a.i, then
\* decode_pertinent_indices on a fresh Retriever: the first chunk of the plaintext
\* polynomial and the set the decoder is left with.
EncodeThenDecodeIndex(a) ==
    WithValue(EncodeParams(a), LAMBDA rp :
        IF digit_loop_panics(a.i, a.budget_index * rp.slots_per_bucket, rp)
        THEN [status |-> "Panic"]
        ELSE LET assign == [j \in 0..(rp.segment_per_cipher - 1) |->
                               [i \in 0..(a.all_payloads_count - 1) |-> a.budget_index]]
             IN  [status |-> "Ok",
                  chunk |-> [o1 \in 1..rp.slots_per_segment |->
                                message_poly(a.i, [j \in DOMAIN assign |-> a.budget_index],
                                             rp, o1 - 1)],
                  inserted |-> decoded_indices(
                                   compress_pertivency_vector(rp, {a.i}, assign), rp)])

\* The ring dimension of the calls that decode payload digests: two payloads fit.
DecodePolySize == 2 * PayloadLen

\* Largest number of payload-digest ciphertexts handed to decode_combined_payloads.
MaxCombinationCiphers == 5

\* Largest cmb_count_per_cipher of those calls.
MaxCmbCountPerCipher == 3

\* A call of decode_combined_payloads: the modulus, how many combinations the
\* parameters put into a ciphertext, how many ciphertexts are passed, and what
\* they encrypt (a different residue in every slot, with the same noise).
DecodePayloadArgs ==
    [index_modulus : {256, 257}, cmb_count_per_cipher : 1..MaxCmbCountPerCipher,
     cipher_count : 0..MaxCombinationCiphers, base : SampleBases, noise : {-1, 0, 1}]

\* The RetrievalParams of such a call.
DecodePayloadParams(a) ==
    RetrievalParamsNew(a.index_modulus, DecodePolySize, 1, 0, 1, 1, a.cmb_count_per_cipher)

\* The residue that slot pos (from 1) of ciphertext n (from 1) encrypts.
CombinationResidue(a, n, pos) ==
    (a.base + DecodePolySize * (n - 1) + pos) % a.index_modulus

\* The decryption of the ciphertexts passed.
CombinationCiphers(a) ==
    [n \in 1..a.cipher_count |->
        [pos \in 1..DecodePolySize |->
            (scale_one(a.index_modulus) * CombinationResidue(a, n, pos)
                + FieldModulus + a.noise) % FieldModulus]]

\* Clue phases on which the first table gives +1, 0 and -1 (times its scale).
OutcomePhases ==
    {0, first_level_ring_dimension \div 2, first_level_ring_dimension}

\* The outcome of the first-level look-up on such a phase.
Outcome(phase) ==
    IF phase = 0 THEN 1 ELSE IF phase = first_level_ring_dimension THEN -1 ELSE 0

\* The clue slots of a call of the two bootstrapping levels, and the noise of the
\* intermediate ciphertext.
GateArgs ==
    [clues : [1..clue_count -> OutcomePhases],
     noise : (-IntermediateNoise)..IntermediateNoise]

\* first_level_bootstrapping, then second_level_bootstrapping, with the tables of
\* Detector::new.
BootstrapTwice(a) ==
    WithValue(first_level_bootstrapping(
                  a.clues,
                  first_level_lut(first_level_ring_dimension, clue_plain_modulus_value,
                                  intermediate_lwe_plain_modulus),
                  a.noise), LAMBDA inter :
        [status |-> "Ok",
         intermediate |-> inter,
         value |-> second_level_bootstrapping(
                       inter,
                       second_level_lut(second_level_ring_dimension, clue_count,
                                        intermediate_lwe_plain_modulus,
                                        output_plain_modulus_value))])

\* The plaintext moduli of the calls that build a table.
LutPlainModuli == {4, 8, 16, 32, 64}

\* The arguments of first_level_lut.
FirstLutArgs ==
    [rlwe_dimension : {first_level_ring_dimension, 2 * first_level_ring_dimension},
     input_plain_modulus : {clue_plain_modulus_value, 2 * clue_plain_modulus_value},
     output_plain_modulus : LutPlainModuli]

\* Largest log_t of a call of negacyclic_lut.
MaxLogT == 2

\* Largest entry of the tables of those calls.
MaxEntry == 2

\* A call of negacyclic_lut: a table of t = 2^log_t entries and the number of
\* coefficients, t or 2t times a chunk of one or two.
NegacyclicLutArgs ==
    UNION {[table : [1..pow(2, lt) -> 0..MaxEntry], log_t : {lt},
            coeff_count : {pow(2, lt), 2 * pow(2, lt), 4 * pow(2, lt)}] : lt \in 1..MaxLogT}

\* The three implementations of LookUpTable on the same table: the array, the
\* slice, and the function that returns entry n.
NegacyclicLutOverloads(a) ==
    [status |-> "Ok",
     array |-> negacyclic_lut(a.table, a.coeff_count, a.log_t),
     slice |-> negacyclic_lut(SubSeq(a.table, 1, Len(a.table)), a.coeff_count, a.log_t),
     function |-> negacyclic_lut_fn([n \in 0..(Len(a.table) - 1) |-> a.table[n + 1]],
                                    a.coeff_count, a.log_t)]

\* The intermediate cipher moduli of the calls of first_level_bootstrapping, one or
\* two of every kind of ModulusValue.
InterModuli ==
    {[kind |-> "Native", q |-> 0],
     [kind |-> "PowerOf2", q |-> 2 * second_level_ring_dimension],
     [kind |-> "PowerOf2", q |-> 4096],
     [kind |-> "Prime", q |-> 257], [kind |-> "Prime", q |-> 4099],
     [kind |-> "Others", q |-> 100], [kind |-> "Others", q |-> 4095]}

\* Residues of the first-level modulus in a key-switched ciphertext.
FirstLevelResidues == {0, 1, FirstLevelHalf, FirstLevelModulus - 1}

\* The intermediate plaintext moduli of those calls.
InterPlainModuli == {4, 8, 32}

MaxClueCount == 3

\* The key-switched sum of the rotated tables (a mask of two entries and a body),
\* the intermediate parameters and the clue count.
OffsetArgs ==
    [a : [1..2 -> FirstLevelResidues \ {1}], b : FirstLevelResidues,
     modulus : InterModuli, plain_modulus : InterPlainModuli, count : 1..MaxClueCount]

\* The tail of first_level_bootstrapping from the modulus switch on, then the head of
\* second_level_bootstrapping up to the ciphertext its blind rotation reads.
SwitchAddSwitch(a) ==
    LET q        == modulus_of(a.modulus)
        twice    == 2 * second_level_ring_dimension
        switched == lwe_modulus_switch([a |-> a.a, b |-> a.b], FirstLevelModulus, q)
        inter    == [a |-> switched.a,
                     b |-> add_clue_count(switched.b, a.modulus, a.plain_modulus, a.count)]
    IN  [status |-> "Ok",
         switched |-> switched,
         intermediate |-> inter,
         rotated |-> IF a.modulus # [kind |-> "PowerOf2", q |-> twice]
                     THEN lwe_modulus_switch(inter, q, twice)
                     ELSE inter]

\* Stand-in for the digits a BigDecimal quotient keeps (100): enough to tell every
\* quotient c * p / q of the calls below from a half, as 100 digits are for a 32-bit q.
DecimalDigits == 3

\* BigDecimal * p / q to the given number of decimal digits, as a count of the last
\* digit kept; the last digit is cut or rounded, as the division chooses.
decimal_quotient(c, p, q, digits, mode) ==
    IF mode = "down" THEN (c * p * pow(10, digits)) \div q
    ELSE (c * p * pow(10, digits) + q \div 2) \div q

\* with_scale_round(0, RoundingMode::HalfUp) on a count of last digits
with_scale_round(d, digits) == (2 * d + pow(10, digits)) \div (2 * pow(10, digits))

\* The closure over a decrypted coefficient with a quotient of one decimal digit.
round_coefficient_one_digit(c, index_modulus, q, mode) ==
    LET p16 == index_modulus % 65536
        t   == with_scale_round(decimal_quotient(c, p16, q, 1, mode), 1)
    IN  IF t >= p16 THEN t - p16 ELSE t

\* The closure over a decrypted coefficient in decode_pertinent_indices and in
\* decode_combined_payloads: p as u16, c * p / q rounded half up, p taken off once.
round_coefficient(c, index_modulus, q, mode) ==
    LET p16 == index_modulus % 65536
        t   == with_scale_round(decimal_quotient(c, p16, q, DecimalDigits, mode),
                                DecimalDigits)
    IN  IF t >= p16 THEN t - p16 ELSE t

\* Odd stand-ins for <F as Field>::MODULUS_VALUE.
RoundModuli == {97, 257, 499}

\* Index moduli of the rounding calls.
RoundIndexModuli == {2, 3, 16, 128, 256}

\* A decrypted coefficient, the index modulus, the field modulus and what the
\* division does with the digit after the last one it keeps.
RoundArgs ==
    UNION {[c : 0..(q - 1), p : RoundIndexModuli, q : {q}, mode : {"down", "half_up"}]
               : q \in RoundModuli}

\* A look-up of a residue in the table of its modulus.
InverseArgs ==
    [modulus : {256}, value : 0..255] \cup [modulus : {257}, value : 0..256]

\* The look-up in INV_MOD_256 or INV_MOD_257; past the end of the table the
\* unchecked read has no value.
InverseLookup(a) ==
    LET table == IF a.modulus = 256 THEN INV_MOD_256_TABLE ELSE INV_MOD_257_TABLE
    IN  IF a.value + 1 \in DOMAIN table
        THEN [status |-> "Ok",
              inv |-> IF a.modulus = 256 THEN INV_MOD_256(a.value) ELSE INV_MOD_257(a.value)]
        ELSE [status |-> "OutOfBounds"]

FunctionCalls ==
    {[fn |-> "RetrievalParams::new", args |-> a] : a \in ParamsArgs}
    \cup {[fn |-> "INV_MOD", args |-> a] : a \in InverseArgs}
    \cup {[fn |-> "round_coefficient", args |-> a] : a \in RoundArgs}
    \cup {[fn |-> "first_level_bootstrapping", args |-> a] : a \in OffsetArgs}
    \cup {[fn |-> "negacyclic_lut", args |-> a] : a \in NegacyclicLutArgs}
    \cup {[fn |-> "first_level_lut", args |-> a] : a \in FirstLutArgs}
    \cup {[fn |-> "second_level_bootstrapping", args |-> a] : a \in GateArgs}
    \cup {[fn |-> "decode_combined_payloads", args |-> a] : a \in DecodePayloadArgs}
    \cup {[fn |-> "compress_pertivency_vector", args |-> a] : a \in EncodeArgs}

InitFunction ==
    /\ SolverIdle
    /\ SessionIdle
    /\ DetectIdle
    /\ ConcurrentIdle
    /\ \E call \in FunctionCalls : fn = call.fn /\ args = call.args
    /\ ret = [status |-> "None"]

\* The call returns r.
Returns(r) ==
    /\ ret.status = "None"
    /\ ret' = r
    /\ UNCHANGED <<fn, args>>
    /\ UNCHANGED <<solverVars, sessionVars, encoderVars, retrieverVars, detectVars,
                 concurrentVars>>

CallRetrievalParamsNew ==
    /\ fn = "RetrievalParams::new"
    /\ Returns(RetrievalParamsNewCall(args))

CallCompressPertivencyVector ==
    /\ fn = "compress_pertivency_vector"
    /\ Returns(EncodeThenDecodeIndex(args))

CallDecodeCombinedPayloads ==
    /\ fn = "decode_combined_payloads"
    /\ Returns([status |-> "Ok",
                value |-> decode_combined_payloads(CombinationCiphers(args),
                                                   DecodePayloadParams(args))])

CallSecondLevelBootstrapping ==
    /\ fn = "second_level_bootstrapping"
    /\ Returns(BootstrapTwice(args))

CallFirstLevelLut ==
    /\ fn = "first_level_lut"
    /\ Returns([status |-> "Ok",
                value |-> first_level_lut(args.rlwe_dimension, args.input_plain_modulus,
                                          args.output_plain_modulus)])

CallNegacyclicLut ==
    /\ fn = "negacyclic_lut"
    /\ Returns(NegacyclicLutOverloads(args))

CallFirstLevelBootstrapping ==
    /\ fn = "first_level_bootstrapping"
    /\ Returns(SwitchAddSwitch(args))

CallRoundCoefficient ==
    /\ fn = "round_coefficient"
    /\ Returns([status |-> "Ok",
                decoded |-> round_coefficient(args.c, args.p, args.q, args.mode)])

CallInverseTable ==
    /\ fn = "INV_MOD"
    /\ Returns(InverseLookup(args))

NextFunction ==
    \/ CallRetrievalParamsNew
    \/ CallInverseTable
    \/ CallRoundCoefficient
    \/ CallFirstLevelBootstrapping
    \/ CallNegacyclicLut
    \/ CallFirstLevelLut
    \/ CallSecondLevelBootstrapping
    \/ CallDecodeCombinedPayloads
    \/ CallCompressPertivencyVector

SpecFunction == InitFunction /\ [][NextFunction]_vars

\* C21: the number of index-digest ciphertexts RetrievalParams::new sets is the
\* ceiling of segment_count / segment_per_cipher, so the ciphertexts together carry
\* at least segment_count segments, and there is one whenever segment_count >= 1.
C21_CipherCountIsCeiling ==
    (fn = "RetrievalParams::new" /\ ret.status = "Ok") =>
        LET rp == ret.value
        IN  /\ rp.segment_per_cipher = args.polynomial_size \div rp.slots_per_segment
            /\ rp.max_encode_indices_cipher_count
                  = div_ceil(rp.segment_count, rp.segment_per_cipher)
            /\ rp.max_encode_indices_cipher_count * rp.segment_per_cipher >= rp.segment_count
            /\ rp.segment_count >= 1 => rp.max_encode_indices_cipher_count >= 1

RECURSIVE MinDigits(_, _, _)
\* The least d >= from with p^d >= n.
MinDigits(p, n, from) == IF pow(p, from) >= n THEN from ELSE MinDigits(p, n, from + 1)

\* The index slots of the buckets of rp.
IndexSlots(rp) == rp.slots_per_bucket - 1

\* C22 as stated: for every N >= 1 and every p, index_slots is the least d with
\* p^d >= N, and slots_per_bucket is one more.
C22_IndexSlotsMinimal ==
    (fn = "RetrievalParams::new" /\ ret.status = "Ok") =>
        IndexSlots(ret.value) = MinDigits(args.index_modulus, args.all_payloads_count, 0)

\* C22: for N >= 2 index_slots is the least d with p^d >= N; for N = 1 it is 0 when
\* p is a power of two and 1 otherwise; slots_per_bucket is index_slots + 1.
C22_IndexSlotsMinimalBeyondOne ==
    (fn = "RetrievalParams::new" /\ ret.status = "Ok") =>
        IndexSlots(ret.value) =
            IF args.all_payloads_count = 1
            THEN (IF is_power_of_two(args.index_modulus) THEN 0 ELSE 1)
            ELSE MinDigits(args.index_modulus, args.all_payloads_count, 0)

C22_Witness ==
    /\ fn = "RetrievalParams::new" /\ ret.status = "Ok"
    /\ args.index_modulus = 3 /\ args.all_payloads_count = 10
    /\ IndexSlots(ret.value) = 3

\* Digit k (from 0) of i in base p.
DigitOf(i, p, k) == (i \div pow(p, k)) % p

\* C23: for every index i of the board and every bucket b the encoder ends its digit
\* loop and leaves, in a segment, the base-p digits of i in slots 0..index_slots-1 of
\* bucket b, 1 in slot index_slots and 0 everywhere else; the decoder inserts
\* exactly i.
C23_IndexRoundTrip ==
    (fn = "compress_pertivency_vector" /\ ret.status # "None") =>
        LET rp      == EncodeParams(args)
            address == args.budget_index * rp.slots_per_bucket
        IN  /\ ret.status = "Ok"
            /\ \A o \in 0..(rp.slots_per_segment - 1) :
                  ret.chunk[o + 1] =
                      IF o = address + IndexSlots(rp) THEN 1
                      ELSE IF o >= address /\ o < address + IndexSlots(rp)
                           THEN DigitOf(args.i, rp.index_modulus, o - address)
                           ELSE 0
            /\ ret.inserted = {args.i}

\* Payload r (from 0) has a ciphertext among those passed and a chunk in it.
HasSource(a, r) ==
    /\ r \div a.cmb_count_per_cipher < a.cipher_count
    /\ ((r % a.cmb_count_per_cipher) + 1) * PayloadLen <= DecodePolySize

\* Payload r (from 0) as returned holds the residues of its chunk of its ciphertext.
ReadFromSource(a, r) ==
    \A k \in 1..PayloadLen :
        ret.value[r + 1][k] =
            CombinationResidue(a, (r \div a.cmb_count_per_cipher) + 1,
                               (r % a.cmb_count_per_cipher) * PayloadLen + k)

RECURSIVE Accumulated1(_, _)
\* The sum of the first-level outcomes of the first n clue slots.
Accumulated1(cs, n) == IF n = 0 THEN 0 ELSE Accumulated1(cs, n - 1) + Outcome(cs[n])

\* C25: for every vector of first-level outcomes in {+1, 0, -1}^c the intermediate
\* ciphertext carries c plus their sum, and the second-level look-up returns 1 when
\* that is 2c, that is when all c outcomes are +1, and 0 for every other vector.
C25_SecondLevelGate ==
    (fn = "second_level_bootstrapping" /\ ret.status = "Ok") =>
        LET acc == Accumulated1(args.clues, clue_count)
        IN  /\ modulus_switch(ret.intermediate, intermediate_cipher_modulus_value,
                              intermediate_lwe_plain_modulus)
                  = clue_count + acc
            /\ acc = clue_count <=> \A i \in 1..clue_count : Outcome(args.clues[i]) = 1
            /\ decode(ret.value[1]) = (IF acc = clue_count THEN 1 ELSE 0)

C25_Witness ==
    /\ fn = "second_level_bootstrapping" /\ ret.status = "Ok"
    /\ \A i \in 1..clue_count : Outcome(args.clues[i]) = 1
    /\ args.noise = IntermediateNoise
    /\ decode(ret.value[1]) = 1

\* q / t rounded to the nearest integer, halves up.
RoundHalfUp(q, t) == CHOOSE r \in 0..q : 2 * t * r <= 2 * q + t /\ 2 * q + t < 2 * t * r + 2 * t

\* The table first_level_lut returned is the negacyclic table of [s, 0, 0, 0, q1 - s].
IsFirstTableOf(s) ==
    ret.value = negacyclic_lut(<<s, 0, 0, 0, FirstLevelModulus - s>>, args.rlwe_dimension,
                               trailing_zeros(args.input_plain_modulus))

\* C26 as stated: LUT1 is built from [s, 0, 0, 0, q1 - s] with s = round(q1 / (2 * t_m)).
C26_ScaleIsHalfStep ==
    (fn = "first_level_lut" /\ ret.status = "Ok") =>
        IsFirstTableOf(RoundHalfUp(FirstLevelModulus, 2 * args.output_plain_modulus))

\* C26: LUT1 is built from the 5-entry table [s, 0, 0, 0, q1 - s] with
\* s = round(q1 / t_m), q1 the first-level field modulus and t_m the plaintext
\* modulus of the intermediate ciphertext.
C26_ScaleIsFullStep ==
    (fn = "first_level_lut" /\ ret.status = "Ok") =>
        IsFirstTableOf(RoundHalfUp(FirstLevelModulus, args.output_plain_modulus))

C26_Witness ==
    /\ fn = "first_level_lut" /\ ret.status = "Ok"
    /\ args.output_plain_modulus = 64
    /\ args.input_plain_modulus = clue_plain_modulus_value
    /\ ret.value[1] = RoundHalfUp(FirstLevelModulus, 64)
    /\ ret.value[1] # FirstLevelModulus \div 64
    /\ ret.value[Len(ret.value)] = FirstLevelModulus - ret.value[1]

\* Term n (from 0) of v0, v1, v1, v2, v2, ... over the table.
Doubled(table, n) == table[((n + 1) \div 2) + 1]

\* The overloads agree on the table of the call.
OverloadsAgree == ret.array = ret.slice /\ ret.slice = ret.function

\* C27 as stated: the polynomial is 2t chunks of N / (2t) coefficients holding
\* v0, v1, v1, ..., v_{t-1}, v_{t-1}, -v0, and the overloads agree.
C27_ChunksOfHalfStep ==
    (fn = "negacyclic_lut" /\ ret.status = "Ok") =>
        LET t     == pow(2, args.log_t)
            width == args.coeff_count \div (2 * t)
        IN  /\ width > 0
            /\ Len(ret.array) = args.coeff_count
            /\ \A k \in 0..(args.coeff_count - 1) :
                  ret.array[k + 1] =
                      IF k \div width = 2 * t - 1 THEN -args.table[1]
                      ELSE Doubled(args.table, k \div width)
            /\ OverloadsAgree

\* C27: the polynomial has N coefficients in t chunks of N / t, holding in order the
\* first t terms of v0, v1, v1, v2, v2, ... (v0 once, v1 .. v_{t/2 - 1} twice each,
\* v_{t/2} once); the array, slice and function overloads agree.
C27_ChunksOfWholeStep ==
    (fn = "negacyclic_lut" /\ ret.status = "Ok") =>
        LET t     == pow(2, args.log_t)
            width == args.coeff_count \div t
        IN  /\ Len(ret.array) = args.coeff_count
            /\ \A k \in 0..(args.coeff_count - 1) :
                  ret.array[k + 1] = Doubled(args.table, k \div width)
            /\ OverloadsAgree

C27_Witness ==
    /\ fn = "negacyclic_lut" /\ ret.status = "Ok"
    /\ args.log_t = 2 /\ args.coeff_count = 8
    /\ args.table = <<1, 2, 0, 1>>
    /\ ret.array = <<1, 1, 2, 2, 2, 2, 0, 0>>
    /\ ret.function = ret.array

\* The offset the intermediate body receives: c * (q_m >> log2 t_m) for a power of
\* two, c * round-half-up(q_m / t_m) for a prime or other modulus.
Offset(m, t_m, c) ==
    IF m.kind \in {"Prime", "Others"} THEN c * RoundHalfUp(m.q, t_m)
    ELSE c * (modulus_of(m) \div t_m)

\* C28: the offset is added once, to the body of the ciphertext switched to q_m and
\* reduced modulo q_m; the mask is the switched mask; the switch to 2 * N2 is taken
\* of the ciphertext that already carries the offset.
C28_OffsetOnceOnBody ==
    (fn = "first_level_bootstrapping" /\ ret.status = "Ok") =>
        LET q     == modulus_of(args.modulus)
            twice == 2 * second_level_ring_dimension
        IN  /\ ret.switched.b = modulus_switch(args.b, FirstLevelModulus, q)
            /\ ret.intermediate.a = ret.switched.a
            /\ ret.intermediate.b \in 0..(q - 1)
            /\ ret.intermediate.b =
                   (ret.switched.b + Offset(args.modulus, args.plain_modulus, args.count)) % q
            /\ ret.rotated.b =
                   IF args.modulus = [kind |-> "PowerOf2", q |-> twice]
                   THEN ret.intermediate.b
                   ELSE modulus_switch(ret.intermediate.b, q, twice)

C28_Witness ==
    /\ fn = "first_level_bootstrapping" /\ ret.status = "Ok"
    /\ args.modulus = [kind |-> "Others", q |-> 4095]
    /\ args.plain_modulus = 8 /\ args.count = 3
    /\ args.b = FirstLevelModulus - 1
    /\ ret.switched.b = 0
    /\ ret.intermediate.b = 3 * 512
    /\ ret.intermediate.a = ret.switched.a
    /\ ret.rotated # ret.intermediate

\* t is c * p / q rounded to the nearest integer, halves up: t - 1/2 <= c * p / q < t + 1/2.
IsNearest(t, c, p, q) ==
    /\ (2 * t - 1) * q <= 2 * c * p
    /\ 2 * c * p < (2 * t + 1) * q

\* C29: the decoded value of a coefficient c in [0, q) lies in [0, p) and is
\* floor(c * p / q + 1/2) reduced modulo p: it is the nearest integer, or 0 where the
\* nearest integer is p.
C29_RoundedOnceIntoRange ==
    (fn = "round_coefficient" /\ ret.status = "Ok") =>
        /\ ret.decoded \in 0..(args.p - 1)
        /\ \/ IsNearest(ret.decoded, args.c, args.p, args.q)
           \/ ret.decoded = 0 /\ IsNearest(args.p, args.c, args.p, args.q)

C29_Witness ==
    /\ fn = "round_coefficient" /\ ret.status = "Ok"
    /\ args.q = 499 /\ args.p = 16 /\ args.c = 498
    /\ ret.decoded = 0
    /\ IsNearest(16, 498, 16, 499)

\* A value elimination can meet as a pivot: odd modulo 256, non-zero modulo 257.
PivotValue(a) ==
    IF a.modulus = 256 THEN a.value % 2 = 1 ELSE a.value # 0

\* C30: every pivot value is an index of its table, and the entry found there is its
\* inverse: v * INV_MOD_256[v] = 1 modulo 256 for odd v in [1, 255], and
\* v * INV_MOD_257[v] = 1 modulo 257 for v in [1, 256].
C30_TablesHoldInverses ==
    (fn = "INV_MOD" /\ ret.status # "None" /\ PivotValue(args)) =>
        /\ ret.status = "Ok"
        /\ ret.inv \in 1..(args.modulus - 1)
        /\ (args.value * ret.inv) % args.modulus = 1

C30_Witness ==
    /\ fn = "INV_MOD" /\ ret.status = "Ok"
    /\ args = [modulus |-> 257, value |-> 256]
    /\ ret.inv = 256

====
